---- MODULE Spec2Model ----
(***************************************************************************)
(* A model of the A* shortest-path solver of                               *)
(* src/Algorithms/Graph/AStarAlgorithm.cpp (class AStarSolver) and of the   *)
(* plain Dijkstra run of src/Algorithms/Graph/Dijkstra.cpp, followed by     *)
(* models of the stand-alone peers of the solver: TSPSolver, HamiltonSolver,*)
(* FloydWarshallSolver, getLargestSuffix and Tarjan.                        *)
(*                                                                         *)
(* One behaviour is the life of one solver object: the constructor's       *)
(* arguments are drawn in the initial state, the constructor is applied to *)
(* them, and then the public methods solve(), getShortestPath() and        *)
(* reconstructPath() are called in any order.  solve() is modelled loop    *)
(* iteration by loop iteration; the other methods are single steps.        *)
(* The peers share nothing with the solver: a behaviour holds one object,  *)
(* and the variables of the others stay at their idle values.              *)
(***************************************************************************)
EXTENDS Integers, Sequences, FiniteSets, TLC

VARIABLES
    V,                 \* constructor argument numberOfVertices
    edges,             \* constructor argument: sequence of <<u, v, w>>
    grid,              \* constructor argument: sequence of rows of cells
    source,            \* member source
    destination,       \* member destination
    ctor,              \* outcome of the constructor: "ok" or the exception
    graph,             \* member graph: vertex -> sequence of <<v, w>>
    heuristicValues,   \* member heuristicValues
    shortestDistance,  \* member shortestDistance
    parent,            \* member parent
    path,              \* member path
    pc,                \* "idle", "loop" while solve() is running, "undefined"
    caller,            \* who called the running solve()
    pq,                \* local of solve(): the frontier, a set of <<f, v>>
    closed,            \* local of solve()
    dist,              \* local of solve()
    hist,              \* the calls completed so far, oldest first
    budget,            \* how many calls the driver makes on this solver
    tsp,               \* the TSPSolver of tspSolver.cpp and its calls
    hamilton,          \* the HamiltonSolver of Hamiltonian_path_cycle.cpp
    floyd,             \* the FloydWarshallSolver of FloydWarshall.cpp
    suffix,            \* the argument and result of getLargestSuffix
    tarjan             \* the Tarjan object of Tarjan.cpp

\* the objects of the other files
peers == <<tsp, hamilton, floyd, suffix, tarjan>>

vars == <<V, edges, grid, source, destination, ctor, graph, heuristicValues,
          shortestDistance, parent, path, pc, caller, pq, closed, dist, hist,
          budget, peers>>

\* what no method of the A* solver changes once its constructor has
\* returned
inputs == <<V, edges, grid, source, destination, ctor, graph, heuristicValues,
            budget, peers>>

\* everything of the A* solver
astar == <<V, edges, grid, source, destination, ctor, graph, heuristicValues,
           shortestDistance, parent, path, pc, caller, pq, closed, dist, hist,
           budget>>

----------------------------------------------------------------------------
(* Bounds of the model *)

\* vertices of the graphs of the family that grows in vertices
NumVertices == 3
\* edge weights of the family that grows in weight are 0 .. MaxWeight
MaxWeight == 1
\* method calls made on one solver of the family that grows in calls
MaxCalls == 2
\* rows of the grids of the grid specification
GridRows == 2

----------------------------------------------------------------------------
(* int arithmetic *)

\* std::numeric_limits<int>::max(), the value of the member inf
inf == 2147483647

\* a + b in 32-bit two's complement (the sum is never formed out of range)
IntAdd(a, b) ==
    IF b > 0 /\ a > inf - b THEN ((a - inf) + (b - inf)) - 2
    ELSE IF b < 0 /\ a < ((0 - inf) - 1) - b THEN ((a + inf) + (b + inf)) + 2
    ELSE a + b

Abs(x) == IF x < 0 THEN 0 - x ELSE x

\* the empty vector
NoVector == <<>>

\* the value of a variable whose object does not exist in this behaviour
NoObject == [made |-> FALSE]

Vertices == 0 .. (V - 1)

----------------------------------------------------------------------------
(* The constructor *)

getManhattenDistance(x1, y1, x2, y2) == Abs(x1 - x2) + Abs(y1 - y2)

\* the cells the two nested loops visit, in the order they visit them:
\* rows 0 .. grid.size()-1, columns 0 .. grid[0].size()-1 (0-based)
ScanWidth(g) == IF Len(g) = 0 THEN 0 ELSE Len(g[1])
CellAt(g, k) == <<k \div ScanWidth(g), k % ScanWidth(g)>>
CellValue(g, k) == g[(k \div ScanWidth(g)) + 1][(k % ScanWidth(g)) + 1]
ScanLength(g) == Len(g) * ScanWidth(g)

\* getCoordinates returning the last cell that holds node
getCoordinatesLast(g, node) ==
    LET hits == {k \in 0 .. (ScanLength(g) - 1) : CellValue(g, k) = node}
    IN IF hits = {} THEN <<"invalid_argument">>
       ELSE LET k == CHOOSE m \in hits : \A n \in hits : m >= n
            IN <<"ok", CellAt(g, k)[1], CellAt(g, k)[2]>>

\* getCoordinates: the first cell in scan order that holds node, or the
\* exception when there is none
getCoordinates(g, node) ==
    LET hits == {k \in 0 .. (ScanLength(g) - 1) : CellValue(g, k) = node}
    IN IF hits = {} THEN <<"invalid_argument">>
       ELSE LET k == CHOOSE m \in hits : \A n \in hits : m <= n
            IN <<"ok", CellAt(g, k)[1], CellAt(g, k)[2]>>

\* the caching loop of initHeuristicValues from cell k on: every cell that
\* holds a vertex overwrites that vertex's entry
RECURSIVE CacheHeuristics(_, _, _, _, _)
CacheHeuristics(g, k, x, y, h) ==
    IF k >= ScanLength(g) THEN h
    ELSE LET u == CellValue(g, k)
             h2 == IF u # -1
                   THEN [h EXCEPT ![u] =
                            getManhattenDistance(CellAt(g, k)[1], CellAt(g, k)[2], x, y)]
                   ELSE h
         IN CacheHeuristics(g, k + 1, x, y, h2)

\* initHeuristicValues measuring from the corner cell when the destination
\* is in no cell
initHeuristicValuesOrigin(g, dst, h0) ==
    LET c == getCoordinates(g, dst)
    IN IF c[1] # "ok" THEN [status |-> "ok", h |-> CacheHeuristics(g, 0, 0, 0, h0)]
       ELSE [status |-> "ok", h |-> CacheHeuristics(g, 0, c[2], c[3], h0)]

\* initHeuristicValues.  A cell that holds neither -1 nor a vertex makes
\* line 189 write outside heuristicValues: the behaviour is undefined from
\* there on, and the model follows the object no further.
initHeuristicValues(g, dst, h0) ==
    LET c == getCoordinates(g, dst)
    IN IF c[1] # "ok" THEN [status |-> c[1], h |-> h0]
       ELSE IF \E k \in 0 .. (ScanLength(g) - 1) :
                   CellValue(g, k) # -1 /\ CellValue(g, k) \notin DOMAIN h0
       THEN [status |-> "undefined", h |-> h0]
       ELSE [status |-> "ok", h |-> CacheHeuristics(g, 0, c[2], c[3], h0)]

\* the edge loop testing the weight before the endpoints
RECURSIVE AddEdgesWeightFirst(_, _, _, _)
AddEdgesWeightFirst(es, k, n, adj) ==
    IF k > Len(es) THEN [status |-> "ok", graph |-> adj]
    ELSE LET u == es[k][1]
             v == es[k][2]
             w == es[k][3]
         IN IF w < 0
            THEN [status |-> "invalid_argument", graph |-> adj]
            ELSE IF u < 0 \/ u >= n \/ v < 0 \/ v >= n
            THEN [status |-> "out_of_range", graph |-> adj]
            ELSE LET a1 == [adj EXCEPT ![u] = Append(@, <<v, w>>)]
                     a2 == [a1 EXCEPT ![v] = Append(@, <<u, w>>)]
                 IN AddEdgesWeightFirst(es, k + 1, n, a2)

\* the edge loop filing an edge of negative weight like any other
RECURSIVE AddEdgesAnyWeight(_, _, _, _)
AddEdgesAnyWeight(es, k, n, adj) ==
    IF k > Len(es) THEN [status |-> "ok", graph |-> adj]
    ELSE LET u == es[k][1]
             v == es[k][2]
             w == es[k][3]
         IN IF u < 0 \/ u >= n \/ v < 0 \/ v >= n
            THEN [status |-> "out_of_range", graph |-> adj]
            ELSE LET a1 == [adj EXCEPT ![u] = Append(@, <<v, w>>)]
                     a2 == [a1 EXCEPT ![v] = Append(@, <<u, w>>)]
                 IN AddEdgesAnyWeight(es, k + 1, n, a2)

\* the edge loop of the constructor from edge k on
RECURSIVE AddEdges(_, _, _, _)
AddEdges(es, k, n, adj) ==
    IF k > Len(es) THEN [status |-> "ok", graph |-> adj]
    ELSE LET u == es[k][1]
             v == es[k][2]
             w == es[k][3]
         IN IF u < 0 \/ u >= n \/ v < 0 \/ v >= n
            THEN [status |-> "out_of_range", graph |-> adj]
            ELSE IF w < 0
            THEN [status |-> "invalid_argument", graph |-> adj]
            ELSE LET a1 == [adj EXCEPT ![u] = Append(@, <<v, w>>)]
                     a2 == [a1 EXCEPT ![v] = Append(@, <<u, w>>)]
                 IN AddEdges(es, k + 1, n, a2)

\* the constructor testing the vertex count after the edge loop
AStarSolverEdgesFirst(g, es, dst, n) ==
    LET built == AddEdges(es, 1, n, [x \in 0 .. (n - 1) |-> <<>>])
    IN IF built.status # "ok"
       THEN [status |-> built.status, graph |-> NoVector, h |-> NoVector]
       ELSE IF n <= 0
       THEN [status |-> "invalid_argument", graph |-> NoVector, h |-> NoVector]
       ELSE LET hv == initHeuristicValues(g, dst, [x \in 0 .. (n - 1) |-> 0])
            IN IF hv.status # "ok"
               THEN [status |-> hv.status, graph |-> NoVector, h |-> NoVector]
               ELSE [status |-> "ok", graph |-> built.graph, h |-> hv.h]

\* AStarSolver::AStarSolver
AStarSolver(g, es, dst, n) ==
    IF n <= 0
    THEN [status |-> "invalid_argument", graph |-> NoVector, h |-> NoVector]
    ELSE LET built == AddEdges(es, 1, n, [x \in 0 .. (n - 1) |-> <<>>])
         IN IF built.status # "ok"
            THEN [status |-> built.status, graph |-> NoVector, h |-> NoVector]
            ELSE LET hv == initHeuristicValues(g, dst, [x \in 0 .. (n - 1) |-> 0])
                 IN IF hv.status # "ok"
                    THEN [status |-> hv.status, graph |-> NoVector, h |-> NoVector]
                    ELSE [status |-> "ok", graph |-> built.graph, h |-> hv.h]

\* the state right after the constructor has run on the given arguments
Constructed(g, es, src, dst, n, calls) ==
    LET made == AStarSolver(g, es, dst, n)
    IN /\ budget = calls
       /\ V = n
       /\ edges = es
       /\ grid = g
       /\ source = src
       /\ destination = dst
       /\ ctor = made.status
       /\ graph = made.graph
       /\ heuristicValues = made.h
       /\ shortestDistance = -1
       /\ parent = NoVector
       /\ path = <<>>
       /\ pc = "idle"
       /\ caller = "none"
       /\ pq = {}
       /\ closed = NoVector
       /\ dist = NoVector
       /\ hist = <<>>
       /\ tsp = NoObject
       /\ hamilton = NoObject
       /\ floyd = NoObject
       /\ suffix = NoObject
       /\ tarjan = NoObject

\* no A* solver exists in this behaviour
NoAStar ==
    /\ budget = 0
    /\ V = 0
    /\ edges = <<>>
    /\ grid = <<>>
    /\ source = 0
    /\ destination = 0
    /\ ctor = "absent"
    /\ graph = NoVector
    /\ heuristicValues = NoVector
    /\ shortestDistance = -1
    /\ parent = NoVector
    /\ path = <<>>
    /\ pc = "idle"
    /\ caller = "none"
    /\ pq = {}
    /\ closed = NoVector
    /\ dist = NoVector
    /\ hist = <<>>

----------------------------------------------------------------------------
(* solve() *)

\* f as a best-first search would have it: the heuristic alone
fGreedy(d, node) == heuristicValues[node]

\* the lambda f of solve()
f(d, node) == IntAdd(d[node], heuristicValues[node])

\* the order that looks at the vertex before the f-score
PairLessVertexFirst(a, b) == a[2] < b[2] \/ (a[2] = b[2] /\ a[1] < b[1])

\* std::greater on pairs makes the top the least pair, first by f-score and
\* then by vertex
PairLess(a, b) == a[1] < b[1] \/ (a[1] = b[1] /\ a[2] < b[2])
Top(q) == CHOOSE a \in q : \A b \in q \ {a} : PairLess(a, b)

\* the relaxation loop leaving at the first closed neighbour: break where
\* the code has continue
RECURSIVE RelaxUntilClosed(_, _, _, _, _, _)
RelaxUntilClosed(u, k, d, p, q, cl) ==
    IF k > Len(graph[u]) THEN [dist |-> d, parent |-> p, pq |-> q]
    ELSE LET v == graph[u][k][1]
             w == graph[u][k][2]
             tentativeGValue == IntAdd(d[u], w)
         IN IF cl[v] THEN [dist |-> d, parent |-> p, pq |-> q]
            ELSE IF tentativeGValue < d[v]
            THEN LET d2 == [d EXCEPT ![v] = tentativeGValue]
                 IN RelaxUntilClosed(u, k + 1, d2, [p EXCEPT ![v] = u],
                                     q \cup {<<f(d2, v), v>>}, cl)
            ELSE RelaxUntilClosed(u, k + 1, d, p, q, cl)

\* the relaxation loop with parent[v] = u moved out of the if
RECURSIVE RelaxParentAlways(_, _, _, _, _, _)
RelaxParentAlways(u, k, d, p, q, cl) ==
    IF k > Len(graph[u]) THEN [dist |-> d, parent |-> p, pq |-> q]
    ELSE LET v == graph[u][k][1]
             w == graph[u][k][2]
             tentativeGValue == IntAdd(d[u], w)
         IN IF cl[v] THEN RelaxParentAlways(u, k + 1, d, p, q, cl)
            ELSE IF tentativeGValue < d[v]
            THEN LET d2 == [d EXCEPT ![v] = tentativeGValue]
                 IN RelaxParentAlways(u, k + 1, d2, [p EXCEPT ![v] = u],
                                      q \cup {<<f(d2, v), v>>}, cl)
            ELSE RelaxParentAlways(u, k + 1, d, [p EXCEPT ![v] = u], q, cl)

\* the relaxation loop offering the weight of the edge alone, without the
\* distance of u
RECURSIVE RelaxEdgeOnly(_, _, _, _, _, _)
RelaxEdgeOnly(u, k, d, p, q, cl) ==
    IF k > Len(graph[u]) THEN [dist |-> d, parent |-> p, pq |-> q]
    ELSE LET v == graph[u][k][1]
             w == graph[u][k][2]
             tentativeGValue == w
         IN IF cl[v] THEN RelaxEdgeOnly(u, k + 1, d, p, q, cl)
            ELSE IF tentativeGValue < d[v]
            THEN LET d2 == [d EXCEPT ![v] = tentativeGValue]
                 IN RelaxEdgeOnly(u, k + 1, d2, [p EXCEPT ![v] = u],
                                  q \cup {<<f(d2, v), v>>}, cl)
            ELSE RelaxEdgeOnly(u, k + 1, d, p, q, cl)

\* the relaxation loop without the test of closed[v]
RECURSIVE RelaxClosedToo(_, _, _, _, _, _)
RelaxClosedToo(u, k, d, p, q, cl) ==
    IF k > Len(graph[u]) THEN [dist |-> d, parent |-> p, pq |-> q]
    ELSE LET v == graph[u][k][1]
             w == graph[u][k][2]
             tentativeGValue == IntAdd(d[u], w)
         IN IF tentativeGValue < d[v]
            THEN LET d2 == [d EXCEPT ![v] = tentativeGValue]
                 IN RelaxClosedToo(u, k + 1, d2, [p EXCEPT ![v] = u],
                                   q \cup {<<f(d2, v), v>>}, cl)
            ELSE RelaxClosedToo(u, k + 1, d, p, q, cl)

\* the relaxation loop leaving after the first neighbour it improves
RECURSIVE RelaxFirstImprovement(_, _, _, _, _, _)
RelaxFirstImprovement(u, k, d, p, q, cl) ==
    IF k > Len(graph[u]) THEN [dist |-> d, parent |-> p, pq |-> q]
    ELSE LET v == graph[u][k][1]
             w == graph[u][k][2]
             tentativeGValue == IntAdd(d[u], w)
         IN IF cl[v] THEN RelaxFirstImprovement(u, k + 1, d, p, q, cl)
            ELSE IF tentativeGValue < d[v]
            THEN LET d2 == [d EXCEPT ![v] = tentativeGValue]
                 IN [dist |-> d2, parent |-> [p EXCEPT ![v] = u],
                     pq |-> q \cup {<<f(d2, v), v>>}]
            ELSE RelaxFirstImprovement(u, k + 1, d, p, q, cl)

\* the relaxation loop that takes a neighbour at an equal distance too and
\* does not skip the closed ones
RECURSIVE RelaxReopens(_, _, _, _, _, _)
RelaxReopens(u, k, d, p, q, cl) ==
    IF k > Len(graph[u]) THEN [dist |-> d, parent |-> p, pq |-> q]
    ELSE LET v == graph[u][k][1]
             w == graph[u][k][2]
             tentativeGValue == IntAdd(d[u], w)
         IN IF tentativeGValue <= d[v]
            THEN LET d2 == [d EXCEPT ![v] = tentativeGValue]
                 IN RelaxReopens(u, k + 1, d2, [p EXCEPT ![v] = u],
                                 q \cup {<<f(d2, v), v>>}, cl)
            ELSE RelaxReopens(u, k + 1, d, p, q, cl)

\* the relaxation loop over graph[u] from its k-th entry on
RECURSIVE Relax(_, _, _, _, _, _)
Relax(u, k, d, p, q, cl) ==
    IF k > Len(graph[u]) THEN [dist |-> d, parent |-> p, pq |-> q]
    ELSE LET v == graph[u][k][1]
             w == graph[u][k][2]
             tentativeGValue == IntAdd(d[u], w)
         IN IF cl[v] THEN Relax(u, k + 1, d, p, q, cl)
            ELSE IF tentativeGValue < d[v]
            THEN LET d2 == [d EXCEPT ![v] = tentativeGValue]
                 IN Relax(u, k + 1, d2, [p EXCEPT ![v] = u],
                          q \cup {<<f(d2, v), v>>}, cl)
            ELSE Relax(u, k + 1, d, p, q, cl)

\* one entry of hist; table is the member parent as the call leaves it
Call(op, outcome, value, route, ranSolve, found) ==
    [op |-> op, outcome |-> outcome, value |-> value, route |-> route,
     ranSolve |-> ranSolve, found |-> found, table |-> parent]

\* getShortestPath() returning the value it read before it called solve()
ReturnedStale(found, sdBefore, sdNow) ==
    IF caller = "solve"
    THEN Call("solve", IF found THEN "true" ELSE "false", sdNow, <<>>, TRUE, found)
    ELSE Call("getShortestPath", "value", sdBefore, <<>>, TRUE, found)

\* the entry of the call that ends when the running solve() returns: solve()
\* itself returns the flag; getShortestPath() goes on to line 139 and returns
\* the member as it is now, sdBefore being what it was when solve() began
Returned(found, sdBefore, sdNow) ==
    IF caller = "solve"
    THEN Call("solve", IF found THEN "true" ELSE "false", sdNow, <<>>, TRUE, found)
    ELSE Call("getShortestPath", "value", sdNow, <<>>, TRUE, found)

CanCall == ctor = "ok" /\ pc = "idle" /\ Len(hist) < budget

\* solve() beginning without parent.assign: the parent table of the search
\* before, if there was one, stays
solveBeginKeepsParent(who) ==
    LET d0 == [[x \in Vertices |-> inf] EXCEPT ![source] = 0]
    IN /\ pc' = "loop"
       /\ caller' = who
       /\ closed' = [x \in Vertices |-> FALSE]
       /\ dist' = d0
       /\ parent' = IF parent = NoVector THEN [x \in Vertices |-> -1] ELSE parent
       /\ pq' = {<<f(d0, source), source>>}
       /\ UNCHANGED <<inputs, shortestDistance, path, hist>>

\* solve() with closed kept from the search before: the entry of the
\* source, closed then, is dropped and the frontier is empty at once
solveBeginClosedKept(who) ==
    LET d0 == [[x \in Vertices |-> inf] EXCEPT ![source] = 0]
    IN /\ pc' = "loop"
       /\ caller' = who
       /\ closed' = [x \in Vertices |-> FALSE]
       /\ dist' = d0
       /\ parent' = [x \in Vertices |-> -1]
       /\ pq' = IF parent # NoVector /\ source # destination
                THEN {}
                ELSE {<<f(d0, source), source>>}
       /\ UNCHANGED <<inputs, shortestDistance, path, hist>>

\* lines 87-100: the locals, parent.assign, and the first push.  With a
\* source outside [0, V) line 99 writes outside dist: the behaviour is
\* undefined from there on, and the model follows the object no further.
solveBegin(who) ==
    IF source \notin Vertices
    THEN /\ pc' = "undefined"
         /\ caller' = who
         /\ UNCHANGED <<inputs, shortestDistance, parent, path, pq, closed, dist, hist>>
    ELSE LET d0 == [[x \in Vertices |-> inf] EXCEPT ![source] = 0]
         IN /\ pc' = "loop"
            /\ caller' = who
            /\ closed' = [x \in Vertices |-> FALSE]
            /\ dist' = d0
            /\ parent' = [x \in Vertices |-> -1]
            /\ pq' = {<<f(d0, source), source>>}
            /\ UNCHANGED <<inputs, shortestDistance, path, hist>>

CallSolve == CanCall /\ solveBegin("solve")

\* line 104 without its pop: the entry of a closed vertex stays on top
DiscardClosedKeeps ==
    /\ pc = "loop"
    /\ pq # {}
    /\ closed[Top(pq)[2]]
    /\ UNCHANGED vars

\* line 104: an entry of a closed vertex is popped and dropped
DiscardClosed ==
    /\ pc = "loop"
    /\ pq # {}
    /\ closed[Top(pq)[2]]
    /\ pq' = pq \ {Top(pq)}
    /\ UNCHANGED <<inputs, shortestDistance, parent, path, pc, caller, closed, dist, hist>>

\* lines 108-115: the destination is popped
PopDestination ==
    /\ pc = "loop"
    /\ pq # {}
    /\ ~closed[Top(pq)[2]]
    /\ Top(pq)[2] = destination
    /\ shortestDistance' = dist[destination]
    /\ hist' = Append(hist, Returned(TRUE, shortestDistance, dist[destination]))
    /\ pc' = "idle"
    /\ caller' = "none"
    /\ pq' = {}
    /\ closed' = NoVector
    /\ dist' = NoVector
    /\ UNCHANGED <<inputs, parent, path>>

\* lines 108-129: another vertex is popped, closed and its edges relaxed
Expand ==
    /\ pc = "loop"
    /\ pq # {}
    /\ ~closed[Top(pq)[2]]
    /\ Top(pq)[2] # destination
    /\ LET u == Top(pq)[2]
           cl == [closed EXCEPT ![u] = TRUE]
           r == Relax(u, 1, dist, parent, pq \ {Top(pq)}, cl)
       IN /\ closed' = cl
          /\ dist' = r.dist
          /\ parent' = r.parent
          /\ pq' = r.pq
    /\ UNCHANGED <<inputs, shortestDistance, path, pc, caller, hist>>

\* the failure return recording dist[destination] as the success return does
ExhaustedRecords ==
    /\ pc = "loop"
    /\ pq = {}
    /\ shortestDistance' = dist[destination]
    /\ hist' = Append(hist, Returned(FALSE, shortestDistance, dist[destination]))
    /\ pc' = "idle"
    /\ caller' = "none"
    /\ closed' = NoVector
    /\ dist' = NoVector
    /\ UNCHANGED <<inputs, parent, path, pq>>

\* lines 102, 106, 132-133: the frontier is empty
Exhausted ==
    /\ pc = "loop"
    /\ pq = {}
    /\ hist' = Append(hist, Returned(FALSE, shortestDistance, shortestDistance))
    /\ pc' = "idle"
    /\ caller' = "none"
    /\ closed' = NoVector
    /\ dist' = NoVector
    /\ UNCHANGED <<inputs, shortestDistance, parent, path, pq>>

----------------------------------------------------------------------------
(* getShortestPath() and reconstructPath() *)

\* getShortestPath() calling solve() only while no solve() has run
MustSolveOnce(sd) == parent = NoVector

\* getShortestPath() led by a flag that a successful solve() sets, in place
\* of the sentinel
MustSolveUnlessFound(sd) == \A i \in 1 .. Len(hist) : ~hist[i].found

\* whether getShortestPath() calls solve()
MustSolve(sd) == sd = -1

CallGetShortestPath ==
    /\ CanCall
    /\ IF MustSolve(shortestDistance)
       THEN solveBegin("getShortestPath")
       ELSE /\ hist' = Append(hist, Call("getShortestPath", "value",
                                         shortestDistance, <<>>, FALSE, FALSE))
            /\ UNCHANGED <<inputs, shortestDistance, parent, path, pc, caller,
                           pq, closed, dist>>

\* std::reverse left out
Unreversed(s) == s

Reverse(s) == [i \in 1 .. Len(s) |-> s[(Len(s) + 1) - i]]

\* the walk of lines 150-158 from u on, acc being path so far.  Reading
\* parent outside its range is undefined behaviour; a walk of more than V
\* steps is in a cycle and never leaves the loop.
RECURSIVE Walk(_, _, _)
Walk(u, acc, steps) ==
    IF u = source THEN [outcome |-> "path", route |-> Reverse(Append(acc, u))]
    ELSE IF u \notin DOMAIN parent THEN [outcome |-> "undefined", route |-> acc]
    ELSE IF steps > V THEN [outcome |-> "diverges", route |-> acc]
    ELSE Walk(parent[u], Append(acc, u), steps + 1)

\* reconstructPath() refusing only while no solve() has run at all
reconstructPathAfterAnySolve ==
    IF parent = NoVector
    THEN [outcome |-> "logic_error", route |-> <<>>]
    ELSE Walk(destination, <<>>, 0)

\* reconstructPath() testing path.empty() after path.clear() in place of
\* the sentinel: it refuses every call
reconstructPathTestsPath == [outcome |-> "logic_error", route |-> <<>>]

reconstructPath ==
    IF shortestDistance = -1
    THEN [outcome |-> "logic_error", route |-> <<>>]
    ELSE Walk(destination, <<>>, 0)

CallReconstructPath ==
    /\ CanCall
    /\ LET r == reconstructPath
       IN /\ path' = r.route
          /\ hist' = Append(hist, Call("reconstructPath", r.outcome,
                                       shortestDistance, r.route, FALSE, FALSE))
    /\ UNCHANGED <<inputs, shortestDistance, parent, pc, caller, pq, closed, dist>>

Next ==
    \/ CallSolve
    \/ CallGetShortestPath
    \/ CallReconstructPath
    \/ DiscardClosed
    \/ PopDestination
    \/ Expand
    \/ Exhausted

----------------------------------------------------------------------------------------------------------------------------------------------
(* Dijkstra::solve of Dijkstra.cpp, run on an adjacency structure g *)

\* the loop over m_graph[u] from its k-th entry on
RECURSIVE DijkstraRelax(_, _, _, _, _, _)
DijkstraRelax(g, u, cost, k, d, q) ==
    IF k > Len(g[u]) THEN [dist |-> d, pq |-> q]
    ELSE LET v == g[u][k][1]
             w == g[u][k][2]
         IN IF d[v] > IntAdd(cost, w)
            THEN DijkstraRelax(g, u, cost, k + 1,
                               [d EXCEPT ![v] = IntAdd(cost, w)],
                               q \cup {<<IntAdd(cost, w), v>>})
            ELSE DijkstraRelax(g, u, cost, k + 1, d, q)

\* the while loop: pop the least pair, skip it when it is out of date
RECURSIVE DijkstraLoop(_, _, _)
DijkstraLoop(g, q, d) ==
    IF q = {} THEN d
    ELSE LET t == CHOOSE a \in q : \A b \in q \ {a} : PairLess(a, b)
             rest == q \ {t}
         IN IF t[1] > d[t[2]] THEN DijkstraLoop(g, rest, d)
            ELSE LET r == DijkstraRelax(g, t[2], t[1], 1, d, rest)
                 IN DijkstraLoop(g, r.pq, r.dist)

\* the dist vector Dijkstra::solve(sourceVertex) prints
Dijkstra(g, sourceVertex) ==
    DijkstraLoop(g, {<<0, sourceVertex>>},
                 [[x \in DOMAIN g |-> inf] EXCEPT ![sourceVertex] = 0])

----------------------------------------------------------------------------
(* The inputs *)

\* the undirected edges of n vertices with weights in ws, each once: the
\* constructor files <<u, v, w>> and <<v, u, w>> identically
EdgeTriples(n, ws) ==
    {t \in (0 .. (n - 1)) \X (0 .. (n - 1)) \X ws : t[1] < t[2]}

RECURSIVE SeqsUpTo(_, _)
SeqsUpTo(S, n) ==
    IF n = 0 THEN {<<>>}
    ELSE LET shorter == SeqsUpTo(S, n - 1)
         IN shorter \cup {Append(s, x) : s \in {t \in shorter : Len(t) = n - 1}, x \in S}

\* edge lists that keep the edges of one vertex pair together and the pairs
\* in increasing order: the constructor files an edge under its two ends
\* only, and the relaxations of one expansion towards different neighbours
\* do not read each other, so only the order of parallel edges shows
PairOrdered(es) ==
    \A i \in 1 .. (Len(es) - 1) :
        \/ es[i][1] < es[i + 1][1]
        \/ (es[i][1] = es[i + 1][1] /\ es[i][2] <= es[i + 1][2])

EdgeLists(n, ws, len) == {es \in SeqsUpTo(EdgeTriples(n, ws), len) : PairOrdered(es)}

Cells(g) == {g[r][c] : r \in 1 .. Len(g), c \in 1 .. ScanWidth(g)}

\* the columns of the grids
TwoColumns == 1 .. 2

\* the weights of the families that do not grow in weight
Light == {0, 1}

\* the solvers of one family: every edge list of up to len edges on n
\* vertices with weights in ws, every grid of one row of two cells that
\* holds the destination, every destination; the source is vertex 0, the
\* first vertex the search expands whichever vertex it is
Family(n, ws, len, calls) ==
    \E es \in EdgeLists(n, ws, len) :
    \E row \in [TwoColumns -> (-1) .. (n - 1)] :
    \E dst \in 0 .. (n - 1) :
        /\ dst \in Cells(<<row>>)
        /\ Constructed(<<row>>, es, 0, dst, n, calls)

\* The search specification.  Three families, each growing with one bound
\* and holding the rest at the least values that leave the search a choice
\* (three vertices, weights 0 and 1, two calls): more vertices; heavier
\* edges; more calls, on the edge lists of up to two edges.
Init ==
    \/ Family(NumVertices, Light, 3, 2)
    \/ Family(3, 0 .. MaxWeight, 3, 2)
    \/ Family(3, Light, 2, MaxCalls)

Spec == Init /\ [][Next]_vars

----------------------------------------------------------------------------
(* The wide specification: edge lists of up to two edges whose weights     *)
(* reach the largest int, the value of inf                                 *)

WideWeights == {0, 1, inf}

InitWide ==
    \E n \in {NumVertices} :
    \E es \in EdgeLists(n, WideWeights, 2) :
    \E row \in [TwoColumns -> (-1) .. (n - 1)] :
    \E dst \in 0 .. (n - 1) :
        /\ dst \in Cells(<<row>>)
        /\ Constructed(<<row>>, es, 0, dst, n, 2)

SpecWide == InitWide /\ [][Next]_vars

----------------------------------------------------------------------------
(* The grid specification: grids of GridRows rows of two cells, any cell   *)
(* contents, over one edge list on three vertices; one call is made        *)

GridEdges == <<<<0, 1, 1>>, <<0, 1, 0>>>>

InitGrid ==
    \E n \in {3} :
    \E g \in [1 .. GridRows -> [TwoColumns -> (-1) .. (n - 1)]] :
    \E dst \in 0 .. (n - 1) :
        Constructed(g, GridEdges, 0, dst, n, 1)

SpecGrid == InitGrid /\ [][Next]_vars

----------------------------------------------------------------------------
(* The specification of simple graphs: four vertices, at most one edge     *)
(* between two vertices, weights 0 and 1, a grid of one row of two cells;  *)
(* one call is made                                                        *)

\* the vertex pairs u < v from <<u, v>> on, in increasing order
RECURSIVE PairsFrom(_, _, _)
PairsFrom(u, v, n) ==
    IF u >= n - 1 THEN <<>>
    ELSE IF v >= n THEN PairsFrom(u + 1, u + 2, n)
    ELSE <<<<u, v>>>> \o PairsFrom(u, v + 1, n)

\* the edge list that gives the k-th pair the weight c[k], and no edge when
\* c[k] is -1
RECURSIVE Weighted(_, _, _)
Weighted(pairs, c, k) ==
    IF k > Len(pairs) THEN <<>>
    ELSE (IF c[k] = -1 THEN <<>> ELSE <<<<pairs[k][1], pairs[k][2], c[k]>>>>)
         \o Weighted(pairs, c, k + 1)

SimpleEdgeLists(n, ws) ==
    LET pairs == PairsFrom(0, 1, n)
    IN {Weighted(pairs, c, 1) : c \in [1 .. Len(pairs) -> ws \cup {-1}]}

InitSimple ==
    \E n \in {4} :
    \E es \in SimpleEdgeLists(n, Light) :
    \E row \in [TwoColumns -> (-1) .. (n - 1)] :
    \E dst \in 0 .. (n - 1) :
        /\ dst \in Cells(<<row>>)
        /\ Constructed(<<row>>, es, 0, dst, n, 1)

SpecSimple == InitSimple /\ [][Next]_vars

----------------------------------------------------------------------------
(* The constructor specification: argument lists the constructor may       *)
(* refuse.  Vertex counts below, at and above zero; up to two edges whose  *)
(* endpoints run from below 0 to the vertex count and whose weights run    *)
(* from -1 to 1, loops and both directions included; the grid without      *)
(* rows, the grid of one row without cells and every grid of one row of    *)
(* two cells; destination 2; one call is made on a solver that was built   *)

CtorCounts == {-1, 0, 3}

CtorTriples == ((-1) .. 3) \X ((-1) .. 3) \X ((-1) .. 1)

CtorGrids == {<<>>, <<<<>>>>} \cup {<<row>> : row \in [TwoColumns -> (-1) .. 2]}

InitCtor ==
    \E n \in CtorCounts :
    \E es \in SeqsUpTo(CtorTriples, 2) :
    \E g \in CtorGrids :
        Constructed(g, es, 0, 2, n, 1)

SpecCtor == InitCtor /\ [][Next]_vars

----------------------------------------------------------------------------
(* The scenario specification: the edge list of the documented scenario,   *)
(* a path 0 - 1 - 2 of weights 5 and 3, and next to it the list that lays  *)
(* its second edge beside the first and so leaves vertex 2 out of reach;   *)
(* every grid of GridRows rows of two cells; two calls are made            *)

ScenarioEdges == <<<<0, 1, 5>>, <<1, 2, 3>>>>

ScenarioLists == {ScenarioEdges, <<<<0, 1, 5>>, <<0, 1, 3>>>>}

InitScenario ==
    \E es \in ScenarioLists :
    \E g \in [1 .. GridRows -> [TwoColumns -> (-1) .. 2]] :
        Constructed(g, es, 0, 2, 3, 2)

SpecScenario == InitScenario /\ [][Next]_vars

----------------------------------------------------------------------------
(* The running specification: the solvers of the family that grows in      *)
(* vertices, one call each, under the fairness of a sequential program: a  *)
(* call of solve() that has begun goes on executing its loop               *)

Running == DiscardClosed \/ PopDestination \/ Expand \/ Exhausted

InitRunning == Family(NumVertices, Light, 3, 1)

SpecRunning == InitRunning /\ [][Next]_vars /\ WF_vars(Running)

----------------------------------------------------------------------------
(* The specification of repeated calls: the solvers of three vertices with *)
(* up to two edges, four calls each                                        *)

InitAgain == Family(3, Light, 2, 4)

SpecAgain == InitAgain /\ [][Next]_vars

----------------------------------------------------------------------------
(* The sentinel specification: four vertices, up to three edges of weight  *)
(* 1 or the largest int, destination 3 in a grid of one row of two cells;  *)
(* three calls are made.  The sums of solve() are taken modulo 2^32.       *)

HeavyWeights == {1, inf}

InitSentinel ==
    \E es \in EdgeLists(4, HeavyWeights, 3) :
    \E row \in [TwoColumns -> (-1) .. 3] :
        /\ 3 \in Cells(<<row>>)
        /\ Constructed(<<row>>, es, 0, 3, 4, 3)

SpecSentinel == InitSentinel /\ [][Next]_vars

----------------------------------------------------------------------------
(* The range specification: three vertices, up to two edges, and a source, *)
(* a destination and the two cells of a grid of one row that run from -1   *)
(* to the vertex count; two calls are made                                 *)

InitRange ==
    \E es \in EdgeLists(3, Light, 2) :
    \E row \in [TwoColumns -> (-1) .. 3] :
    \E src \in (-1) .. 3 :
    \E dst \in (-1) .. 3 :
        Constructed(<<row>>, es, src, dst, 3, 2)

SpecRange == InitRange /\ [][Next]_vars

----------------------------------------------------------------------------
(* TSPSolver of tspSolver.cpp.  A bitmask is the int the code holds.       *)

\* std::numeric_limits<int>::max() / 2, the value of the member INF
INF == 1073741823

Min(a, b) == IF a < b THEN a ELSE b

\* (mask & (1 << v)) != 0, and mask | (1 << v)
Bit(mask, v) == (mask \div (2 ^ v)) % 2 = 1
WithBit(mask, v) == IF Bit(mask, v) THEN mask ELSE mask + (2 ^ v)

\* the constructor's loop over the edges from edge k on
RECURSIVE FillMatrix(_, _, _)
FillMatrix(es, k, m) ==
    IF k > Len(es) THEN m
    ELSE LET u == es[k][1]
             v == es[k][2]
             w == es[k][3]
             m1 == [m EXCEPT ![u][v] = w]
         IN FillMatrix(es, k + 1, [m1 EXCEPT ![v][u] = w])

\* TSPSolver::TSPSolver, and the calls made on the object so far
TSPSolver(numOfVertices, es, start) ==
    [made |-> TRUE,
     n |-> numOfVertices,
     startPoint |-> start,
     graph |-> FillMatrix(es, 1, [a \in 0 .. (numOfVertices - 1) |->
                                    [b \in 0 .. (numOfVertices - 1) |-> INF]]),
     calls |-> <<>>]

\* a dp table of 1 << n rows of n entries
Table(n, x) == [mask \in 0 .. ((2 ^ n) - 1) |-> [u \in 0 .. (n - 1) |-> x]]

\* TSPSolver::dfs, returning its value and the table as it leaves it; and
\* its loop over v from v on, minCost being the least cost so far
RECURSIVE tspDfs(_, _, _, _)
RECURSIVE tspDfsLoop(_, _, _, _, _, _)
tspDfs(t, dp, u, before) ==
    LET mask == WithBit(before, u)
    IN IF mask = (2 ^ t.n) - 1 THEN [value |-> t.graph[u][t.startPoint], dp |-> dp]
       ELSE IF dp[mask][u] # -1 THEN [value |-> dp[mask][u], dp |-> dp]
       ELSE LET r == tspDfsLoop(t, dp, u, mask, 0, INF)
            IN [value |-> r.value, dp |-> [r.dp EXCEPT ![mask][u] = r.value]]

tspDfsLoop(t, dp, u, mask, v, minCost) ==
    IF v >= t.n THEN [value |-> minCost, dp |-> dp]
    ELSE IF t.graph[u][v] = INF THEN tspDfsLoop(t, dp, u, mask, v + 1, minCost)
    ELSE IF Bit(mask, v) THEN tspDfsLoop(t, dp, u, mask, v + 1, minCost)
    ELSE LET r == tspDfs(t, dp, v, mask)
         IN tspDfsLoop(t, r.dp, u, mask, v + 1,
                       Min(minCost, IntAdd(t.graph[u][v], r.value)))

solveTopDown(t) ==
    LET minCost == tspDfs(t, Table(t.n, -1), t.startPoint, 0).value
    IN IF minCost = INF THEN -1 ELSE minCost

\* the three nested loops of solveBottomUp from iteration at on, counted
\* through mask, u and v; the two tests on u alone read nothing the loop
\* over v writes
RECURSIVE bottomUpLoop(_, _, _)
bottomUpLoop(t, dp, at) ==
    IF at >= (2 ^ t.n) * t.n * t.n THEN dp
    ELSE LET mask == at \div (t.n * t.n)
             u == (at \div t.n) % t.n
             v == at % t.n
         IN IF ~Bit(mask, u) THEN bottomUpLoop(t, dp, at + 1)
            ELSE IF dp[mask][u] = INF THEN bottomUpLoop(t, dp, at + 1)
            ELSE IF Bit(mask, v) \/ t.graph[u][v] = INF THEN bottomUpLoop(t, dp, at + 1)
            ELSE LET newMask == WithBit(mask, v)
                 IN bottomUpLoop(t,
                        [dp EXCEPT ![newMask][v] =
                             Min(@, IntAdd(dp[mask][u], t.graph[u][v]))],
                        at + 1)

\* the closing loop of solveBottomUp from u on
RECURSIVE bottomUpClose(_, _, _, _)
bottomUpClose(t, dp, u, minCost) ==
    IF u >= t.n THEN minCost
    ELSE IF u = t.startPoint \/ t.graph[u][t.startPoint] = INF
    THEN bottomUpClose(t, dp, u + 1, minCost)
    ELSE bottomUpClose(t, dp, u + 1,
             Min(minCost, IntAdd(dp[(2 ^ t.n) - 1][u], t.graph[u][t.startPoint])))

solveBottomUp(t) ==
    LET dp0 == [Table(t.n, INF) EXCEPT ![2 ^ t.startPoint][t.startPoint] = 0]
        minCost == bottomUpClose(t, bottomUpLoop(t, dp0, 0), 0, INF)
    IN IF minCost = INF THEN -1 ELSE minCost

CallSolveTopDown ==
    /\ tsp.made
    /\ Len(tsp.calls) < 2
    /\ tsp' = [tsp EXCEPT !.calls =
                   Append(@, [op |-> "solveTopDown", value |-> solveTopDown(tsp)])]
    /\ UNCHANGED <<astar, hamilton, floyd, suffix, tarjan>>

CallSolveBottomUp ==
    /\ tsp.made
    /\ Len(tsp.calls) < 2
    /\ tsp' = [tsp EXCEPT !.calls =
                   Append(@, [op |-> "solveBottomUp", value |-> solveBottomUp(tsp)])]
    /\ UNCHANGED <<astar, hamilton, floyd, suffix, tarjan>>

NextTSP == CallSolveTopDown \/ CallSolveBottomUp

\* The TSP specification: one to three vertices, every list of up to three
\* edges of weights 1 and 2, loops included, each pair in one direction
\* (the constructor writes both entries of the matrix), every start
TSPCounts == 1 .. 3

TSPTriples(n) == {e \in (0 .. (n - 1)) \X (0 .. (n - 1)) \X {1, 2} : e[1] <= e[2]}

InitTSP ==
    /\ NoAStar
    /\ hamilton = NoObject
    /\ floyd = NoObject
    /\ suffix = NoObject
    /\ tarjan = NoObject
    /\ \E n \in TSPCounts :
       \E es \in SeqsUpTo(TSPTriples(n), 3) :
       \E start \in 0 .. (n - 1) :
           tsp = TSPSolver(n, es, start)

SpecTSP == InitTSP /\ [][NextTSP]_vars

----------------------------------------------------------------------------
(* HamiltonSolver of Hamiltonian_path_cycle.cpp *)

\* the constructor's loop over the edges from edge k on
RECURSIVE Adjacency(_, _, _)
Adjacency(es, k, adj) ==
    IF k > Len(es) THEN adj
    ELSE LET u == es[k][1]
             v == es[k][2]
             a1 == [adj EXCEPT ![u] = Append(@, v)]
         IN Adjacency(es, k + 1, [a1 EXCEPT ![v] = Append(@, u)])

\* HamiltonSolver::HamiltonSolver, with the edge list it was given and the
\* calls made on the object so far
HamiltonSolver(numOfVertices, es) ==
    [made |-> TRUE,
     n |-> numOfVertices,
     edges |-> es,
     total |-> (2 ^ numOfVertices) - 1,
     graph |-> Adjacency(es, 1, [a \in 0 .. (numOfVertices - 1) |-> <<>>]),
     paths |-> <<>>,
     areCycles |-> <<>>,
     calls |-> <<>>]

\* dfs(u, mask, path, startingVertex) of simpleSolver and its loop over
\* graph[u] from entry k on; walked is its argument path, out holds the
\* members paths and areCycles
RECURSIVE storeDfs(_, _, _, _, _, _)
RECURSIVE storeDfsLoop(_, _, _, _, _, _, _)
storeDfs(h, u, before, walked, startingVertex, out) ==
    LET mask == WithBit(before, u)
        pushed == Append(walked, u)
    IN IF mask = h.total
       THEN [paths |-> Append(out.paths, pushed),
             areCycles |-> Append(out.areCycles,
                                  \E k \in 1 .. Len(h.graph[u]) :
                                      h.graph[u][k] = startingVertex)]
       ELSE storeDfsLoop(h, u, mask, pushed, startingVertex, 1, out)

storeDfsLoop(h, u, mask, walked, startingVertex, k, out) ==
    IF k > Len(h.graph[u]) THEN out
    ELSE IF Bit(mask, h.graph[u][k])
    THEN storeDfsLoop(h, u, mask, walked, startingVertex, k + 1, out)
    ELSE storeDfsLoop(h, u, mask, walked, startingVertex, k + 1,
                      storeDfs(h, h.graph[u][k], mask, walked, startingVertex, out))

\* the loop of simpleSolver over the starting vertices from u on
RECURSIVE simpleSolver(_, _, _)
simpleSolver(h, u, out) ==
    IF u >= h.n THEN out
    ELSE simpleSolver(h, u + 1, storeDfs(h, u, 0, <<>>, u, out))

\* dfs(u, mask, numberOfPaths) of pureSimpleSolver and its loop
RECURSIVE countDfs(_, _, _, _)
RECURSIVE countDfsLoop(_, _, _, _, _)
countDfs(h, u, before, numberOfPaths) ==
    LET mask == WithBit(before, u)
    IN IF mask = h.total THEN numberOfPaths + 1
       ELSE countDfsLoop(h, u, mask, 1, numberOfPaths)

countDfsLoop(h, u, mask, k, numberOfPaths) ==
    IF k > Len(h.graph[u]) THEN numberOfPaths
    ELSE IF Bit(mask, h.graph[u][k]) THEN countDfsLoop(h, u, mask, k + 1, numberOfPaths)
    ELSE countDfsLoop(h, u, mask, k + 1, countDfs(h, h.graph[u][k], mask, numberOfPaths))

\* the loop of pureSimpleSolver over the starting vertices from u on
RECURSIVE pureSimpleSolver(_, _, _)
pureSimpleSolver(h, u, numberOfPaths) ==
    IF u >= h.n THEN numberOfPaths
    ELSE pureSimpleSolver(h, u + 1, countDfs(h, u, 0, numberOfPaths))

RECURSIVE dpDfs(_, _, _, _)
RECURSIVE dpDfsLoop(_, _, _, _, _, _)

\* dfs(u, mask, dp) keeping its table by the vertex alone
dpDfsByVertex(h, u, before, dp) ==
    LET mask == WithBit(before, u)
    IN IF mask = h.total THEN [value |-> 1, dp |-> dp]
       ELSE IF dp[0][u] # -1 THEN [value |-> dp[0][u], dp |-> dp]
       ELSE LET r == dpDfsLoop(h, u, mask, 1, 0, dp)
            IN [value |-> r.value, dp |-> [r.dp EXCEPT ![0][u] = r.value]]

\* dfs(u, mask, dp) of dpSolver, returning its value and the table as it
\* leaves it; and its loop over graph[u] from entry k on
dpDfs(h, u, before, dp) ==
    LET mask == WithBit(before, u)
    IN IF mask = h.total THEN [value |-> 1, dp |-> dp]
       ELSE IF dp[mask][u] # -1 THEN [value |-> dp[mask][u], dp |-> dp]
       ELSE LET r == dpDfsLoop(h, u, mask, 1, 0, dp)
            IN [value |-> r.value, dp |-> [r.dp EXCEPT ![mask][u] = r.value]]

dpDfsLoop(h, u, mask, k, numberOfPaths, dp) ==
    IF k > Len(h.graph[u]) THEN [value |-> numberOfPaths, dp |-> dp]
    ELSE IF Bit(mask, h.graph[u][k]) THEN dpDfsLoop(h, u, mask, k + 1, numberOfPaths, dp)
    ELSE LET r == dpDfs(h, h.graph[u][k], mask, dp)
         IN dpDfsLoop(h, u, mask, k + 1, IntAdd(numberOfPaths, r.value), r.dp)

\* the loop of dpSolver over the starting vertices from u on
RECURSIVE dpSolver(_, _, _, _)
dpSolver(h, u, numberOfPaths, dp) ==
    IF u >= h.n THEN numberOfPaths
    ELSE LET r == dpDfs(h, u, 0, dp)
         IN dpSolver(h, u + 1, IntAdd(numberOfPaths, r.value), r.dp)

\* one entry of hamilton.calls: fresh says no path was stored before it
HamiltonCall(op, value, fresh) == [op |-> op, value |-> value, fresh |-> fresh]

CanCallHamilton == hamilton.made /\ Len(hamilton.calls) < 2

CallSimpleSolver ==
    /\ CanCallHamilton
    /\ LET out == simpleSolver(hamilton, 0, [paths |-> hamilton.paths,
                                             areCycles |-> hamilton.areCycles])
       IN hamilton' = [hamilton EXCEPT
                          !.paths = out.paths,
                          !.areCycles = out.areCycles,
                          !.calls = Append(@, HamiltonCall("simpleSolver", Len(out.paths),
                                                           hamilton.paths = <<>>))]
    /\ UNCHANGED <<astar, tsp, floyd, suffix, tarjan>>

CallPureSimpleSolver ==
    /\ CanCallHamilton
    /\ hamilton' = [hamilton EXCEPT !.calls =
                        Append(@, HamiltonCall("pureSimpleSolver",
                                               pureSimpleSolver(hamilton, 0, 0),
                                               hamilton.paths = <<>>))]
    /\ UNCHANGED <<astar, tsp, floyd, suffix, tarjan>>

CallDpSolver ==
    /\ CanCallHamilton
    /\ hamilton' = [hamilton EXCEPT !.calls =
                        Append(@, HamiltonCall("dpSolver",
                                               dpSolver(hamilton, 0, 0, Table(hamilton.n, -1)),
                                               hamilton.paths = <<>>))]
    /\ UNCHANGED <<astar, tsp, floyd, suffix, tarjan>>

NextHamilton == CallSimpleSolver \/ CallPureSimpleSolver \/ CallDpSolver

\* The Hamilton specification: one to NumVertices vertices, every list of up
\* to three edges, loops and repeats included, each pair in one direction
\* (the constructor files <<u, v>> and <<v, u>> identically); two calls
HamiltonPairs(n) == {e \in (0 .. (n - 1)) \X (0 .. (n - 1)) : e[1] <= e[2]}

InitHamilton ==
    /\ NoAStar
    /\ tsp = NoObject
    /\ floyd = NoObject
    /\ suffix = NoObject
    /\ tarjan = NoObject
    /\ \E n \in 1 .. NumVertices :
       \E es \in SeqsUpTo(HamiltonPairs(n), 3) :
           hamilton = HamiltonSolver(n, es)

SpecHamilton == InitHamilton /\ [][NextHamilton]_vars

----------------------------------------------------------------------------
(* FloydWarshallSolver of FloydWarshall.cpp.  Its member inf has the value *)
(* of the A* solver's inf.  solve() is modelled iteration by iteration of  *)
(* its two triple loops.                                                   *)

\* std::numeric_limits<int>::min(), the value of the member negInf
negInf == (0 - inf) - 1

\* whether a + b leaves the range of int: signed overflow, undefined
Overflows(a, b) ==
    \/ (b > 0 /\ a > inf - b)
    \/ (b < 0 /\ a < negInf - b)

\* what the test dp[i][k] != inf && dp[k][j] != inf && dp[i][k] + dp[k][j]
\* < dp[i][j] can evaluate to: either value when the sum overflows
Improves(dp, k, i, j) ==
    IF dp[i][k] = inf \/ dp[k][j] = inf THEN {FALSE}
    ELSE IF Overflows(dp[i][k], dp[k][j]) THEN BOOLEAN
    ELSE {dp[i][k] + dp[k][j] < dp[i][j]}

\* FloydWarshallSolver::FloydWarshallSolver: pc tells how far solve() is,
\* at counts the iterations of the running triple loop
FloydWarshallSolver(numberOfVertices, g) ==
    [made |-> TRUE,
     n |-> numberOfVertices,
     graph |-> g,
     dp |-> g,
     next |-> [i \in 0 .. (numberOfVertices - 1) |->
                  [j \in 0 .. (numberOfVertices - 1) |->
                      IF g[i][j] # inf THEN j ELSE -1]],
     pc |-> "built",
     at |-> 0,
     calls |-> <<>>]

\* where the triple loop is in its iteration number at
LoopK(fw) == fw.at \div (fw.n * fw.n)
LoopI(fw) == (fw.at \div fw.n) % fw.n
LoopJ(fw) == fw.at % fw.n

\* the loop counters after this iteration, and where solve() is then
Advance(fw, then) ==
    IF fw.at + 1 >= fw.n * fw.n * fw.n
    THEN [fw EXCEPT !.at = 0, !.pc = then]
    ELSE [fw EXCEPT !.at = fw.at + 1]

CallFloydSolve ==
    /\ floyd.made
    /\ floyd.pc = "built"
    /\ floyd' = [floyd EXCEPT !.pc = "solve", !.at = 0]
    /\ UNCHANGED <<astar, tsp, hamilton, suffix, tarjan>>

\* one iteration of the triple loop of solve()
FloydSolveStep ==
    /\ floyd.made
    /\ floyd.pc = "solve"
    /\ LET k == LoopK(floyd)
           i == LoopI(floyd)
           j == LoopJ(floyd)
       IN \E taken \in Improves(floyd.dp, k, i, j) :
              floyd' = IF taken
                       THEN Advance([floyd EXCEPT
                                        !.dp[i][j] = IntAdd(floyd.dp[i][k], floyd.dp[k][j]),
                                        !.next[i][j] = floyd.next[i][k]],
                                    "propagate")
                       ELSE Advance(floyd, "propagate")
    /\ UNCHANGED <<astar, tsp, hamilton, suffix, tarjan>>

\* one iteration of the triple loop of propagateNegativeCycle()
FloydPropagateStep ==
    /\ floyd.made
    /\ floyd.pc = "propagate"
    /\ LET k == LoopK(floyd)
           i == LoopI(floyd)
           j == LoopJ(floyd)
       IN \E taken \in Improves(floyd.dp, k, i, j) :
              floyd' = IF taken
                       THEN Advance([floyd EXCEPT !.dp[i][j] = negInf,
                                                  !.next[i][j] = -1],
                                    "solved")
                       ELSE Advance(floyd, "solved")
    /\ UNCHANGED <<astar, tsp, hamilton, suffix, tarjan>>

\* the for loop of reconstructPath from i on, walked being path so far; a
\* walk of more than n * n steps is in a cycle and never leaves the loop
RECURSIVE floydWalk(_, _, _, _, _)
floydWalk(fw, i, v, walked, steps) ==
    IF i = v THEN [outcome |-> "path", route |-> Append(walked, v)]
    ELSE IF steps > fw.n * fw.n THEN [outcome |-> "diverges", route |-> walked]
    ELSE IF fw.dp[i][v] = negInf THEN [outcome |-> "logic_error", route |-> <<>>]
    ELSE IF fw.next[i][v] = -1 THEN [outcome |-> "empty", route |-> <<>>]
    ELSE floydWalk(fw, fw.next[i][v], v, Append(walked, i), steps + 1)

\* FloydWarshallSolver::reconstructPath
floydReconstructPath(fw, u, v) ==
    IF fw.dp[u][v] = inf THEN [outcome |-> "empty", route |-> <<>>]
    ELSE floydWalk(fw, u, v, <<>>, 0)

CallFloydReconstructPath ==
    /\ floyd.made
    /\ floyd.pc = "solved"
    /\ Len(floyd.calls) < 1
    /\ \E u \in 0 .. (floyd.n - 1) : \E v \in 0 .. (floyd.n - 1) :
           LET r == floydReconstructPath(floyd, u, v)
           IN floyd' = [floyd EXCEPT !.calls =
                           Append(@, [u |-> u, v |-> v, outcome |-> r.outcome,
                                      route |-> r.route])]
    /\ UNCHANGED <<astar, tsp, hamilton, suffix, tarjan>>

NextFloyd ==
    \/ CallFloydSolve
    \/ FloydSolveStep
    \/ FloydPropagateStep
    \/ CallFloydReconstructPath

\* The Floyd-Warshall specification: one to three vertices, every matrix
\* with 0 on its diagonal and no edge, weight -1 or weight 1 elsewhere
FloydCounts == 1 .. 3

FloydMatrices(n) ==
    {g \in [0 .. (n - 1) -> [0 .. (n - 1) -> {inf, -1, 0, 1}]] :
        \A i \in 0 .. (n - 1) : \A j \in 0 .. (n - 1) :
            IF i = j THEN g[i][j] = 0 ELSE g[i][j] # 0}

InitFloyd ==
    /\ NoAStar
    /\ tsp = NoObject
    /\ hamilton = NoObject
    /\ suffix = NoObject
    /\ tarjan = NoObject
    /\ \E n \in FloydCounts :
       \E g \in FloydMatrices(n) :
           floyd = FloydWarshallSolver(n, g)

SpecFloyd == InitFloyd /\ [][NextFloyd]_vars

----------------------------------------------------------------------------
(* getLargestSuffix of largestSuffix.cpp.  A string is a sequence of bytes; *)
(* whether char is signed is the build's choice, kept with the string.      *)

MaxLength == 5

Max(a, b) == IF a > b THEN a ELSE b

\* the value of the char that holds byte b
AsChar(b, signedChar) == IF signedChar /\ b >= 128 THEN b - 256 ELSE b

\* s[p] of the code, whose indexes start at 0
CharAt(s, p) == s[p + 1]

\* the inner loop: while (j + k < n && s[i + k] == s[j + k]) ++k
RECURSIVE CommonPrefix(_, _, _, _)
CommonPrefix(s, i, j, k) ==
    IF j + k < Len(s) /\ CharAt(s, i + k) = CharAt(s, j + k)
    THEN CommonPrefix(s, i, j, k + 1)
    ELSE k

\* the outer loop of getLargestSuffix from the counters i and j on, and the
\* substr it returns
RECURSIVE largestSuffixLoop(_, _, _, _)
largestSuffixLoop(s, i, j, signedChar) ==
    IF j >= Len(s) THEN SubSeq(s, i + 1, Len(s))
    ELSE LET k == CommonPrefix(s, i, j, 0)
         IN IF /\ j + k < Len(s)
               /\ AsChar(CharAt(s, i + k), signedChar) < AsChar(CharAt(s, j + k), signedChar)
            THEN largestSuffixLoop(s, j, Max(j + 1, i + k + 1), signedChar)
            ELSE largestSuffixLoop(s, i, j + k + 1, signedChar)

getLargestSuffix(s, signedChar) == largestSuffixLoop(s, 0, 1, signedChar)

\* a caller holding the string s, and what its calls returned
SuffixCaller(s, signedChar) ==
    [made |-> TRUE, s |-> s, signedChar |-> signedChar, calls |-> <<>>]

CallGetLargestSuffix ==
    /\ suffix.made
    /\ Len(suffix.calls) < 1
    /\ suffix' = [suffix EXCEPT !.calls =
                      Append(@, getLargestSuffix(suffix.s, suffix.signedChar))]
    /\ UNCHANGED <<astar, tsp, hamilton, floyd, tarjan>>

NextSuffix == CallGetLargestSuffix

\* The suffix specification: every string of up to MaxLength bytes out of
\* 'a', 'b' and 0xC8, on a build with signed and on one with unsigned char
Bytes == {97, 98, 200}

InitSuffix ==
    /\ NoAStar
    /\ tsp = NoObject
    /\ hamilton = NoObject
    /\ floyd = NoObject
    /\ tarjan = NoObject
    /\ \E s \in SeqsUpTo(Bytes, MaxLength) :
       \E signedChar \in BOOLEAN :
           suffix = SuffixCaller(s, signedChar)

SpecSuffix == InitSuffix /\ [][NextSuffix]_vars

----------------------------------------------------------------------------
(* Tarjan of Tarjan.cpp.  The constructor runs solve(); the stack st is a  *)
(* sequence whose last entry is the top.                                   *)

\* the loop of lines 72-78 that pops one component off the stack, down to
\* and including u
RECURSIVE PopComponent(_, _, _)
PopComponent(t, u, scc) ==
    LET top == t.st[Len(t.st)]
        popped == [t EXCEPT !.st = SubSeq(@, 1, Len(@) - 1),
                            !.onStack[top] = FALSE]
    IN IF top = u
       THEN [popped EXCEPT !.sccs = Append(@, Append(scc, top))]
       ELSE PopComponent(popped, u, Append(scc, top))

RECURSIVE tarjanDfs(_, _)
RECURSIVE tarjanDfsLoop(_, _, _)

\* the loop of dfs lowering lowLink[u] with every visited neighbour, on the
\* stack or not
tarjanDfsLoopAnyVisited(t, u, k) ==
    IF k > Len(t.m_graph[u]) THEN t
    ELSE LET v == t.m_graph[u][k]
             ta == IF t.ids[v] = -1 THEN tarjanDfs(t, v) ELSE t
             tb == [ta EXCEPT !.lowLink[u] = Min(@, ta.lowLink[v])]
         IN tarjanDfsLoop(tb, u, k + 1)

\* Tarjan::dfs, and its loop over m_graph[u] from entry k on
tarjanDfs(t, u) ==
    LET t1 == [t EXCEPT !.ids[u] = t.id,
                        !.lowLink[u] = t.id,
                        !.id = t.id + 1,
                        !.onStack[u] = TRUE,
                        !.st = Append(@, u)]
        t2 == tarjanDfsLoop(t1, u, 1)
    IN IF t2.ids[u] = t2.lowLink[u] THEN PopComponent(t2, u, <<>>) ELSE t2

tarjanDfsLoop(t, u, k) ==
    IF k > Len(t.m_graph[u]) THEN t
    ELSE LET v == t.m_graph[u][k]
             ta == IF t.ids[v] = -1 THEN tarjanDfs(t, v) ELSE t
             tb == IF ta.onStack[v]
                   THEN [ta EXCEPT !.lowLink[u] = Min(@, ta.lowLink[v])]
                   ELSE ta
         IN tarjanDfsLoop(tb, u, k + 1)

\* Tarjan::solve from vertex u on
RECURSIVE tarjanSolve(_, _)
tarjanSolve(t, u) ==
    IF u >= t.n THEN t
    ELSE tarjanSolve(IF t.ids[u] = -1 THEN tarjanDfs(t, u) ELSE t, u + 1)

\* Tarjan::Tarjan: the members as initialised, then solve(); calls holds
\* what the calls of getSCC() returned
Tarjan(g) ==
    LET n == Len(g)
        t0 == [made |-> TRUE,
               m_graph |-> [u \in 0 .. (n - 1) |-> g[u + 1]],
               n |-> n,
               ids |-> [u \in 0 .. (n - 1) |-> -1],
               lowLink |-> [u \in 0 .. (n - 1) |-> 0],
               onStack |-> [u \in 0 .. (n - 1) |-> FALSE],
               st |-> <<>>,
               sccs |-> <<>>,
               id |-> 0,
               calls |-> <<>>]
    IN tarjanSolve(t0, 0)

CallGetSCC ==
    /\ tarjan.made
    /\ Len(tarjan.calls) < 1
    /\ tarjan' = [tarjan EXCEPT !.calls = Append(@, tarjan.sccs)]
    /\ UNCHANGED <<astar, tsp, hamilton, floyd, suffix>>

NextTarjan == CallGetSCC

\* The Tarjan specification: every directed graph of one to four vertices
\* in which a vertex lists up to two different neighbours, itself among
\* them, in either order
TarjanCounts == 1 .. 4

NeighbourLists(n) ==
    {l \in SeqsUpTo(0 .. (n - 1), 2) : \A p, q \in 1 .. Len(l) : p # q => l[p] # l[q]}

InitTarjan ==
    /\ NoAStar
    /\ tsp = NoObject
    /\ hamilton = NoObject
    /\ floyd = NoObject
    /\ suffix = NoObject
    /\ \E n \in TarjanCounts :
       \E g \in [1 .. n -> NeighbourLists(n)] :
           tarjan = Tarjan(g)

SpecTarjan == InitTarjan /\ [][NextTarjan]_vars

----------------------------------------------------------------------------
(* The graph the edge list describes *)

EdgeIndexes == 1 .. Len(edges)
Joins(i, a, b) ==
    \/ (edges[i][1] = a /\ edges[i][2] = b)
    \/ (edges[i][1] = b /\ edges[i][2] = a)
Joined(a, b) == \E i \in EdgeIndexes : Joins(i, a, b)

\* the weight of the lightest edge joining a and b
Lightest(a, b) ==
    LET ws == {edges[i][3] : i \in {j \in EdgeIndexes : Joins(j, a, b)}}
    IN CHOOSE w \in ws : \A x \in ws : w <= x

RECURSIVE ReachableFrom(_)
ReachableFrom(S) ==
    LET more == S \cup {v \in Vertices : \E u \in S : Joined(u, v)}
    IN IF more = S THEN S ELSE ReachableFrom(more)

Reachable == destination \in ReachableFrom({source})

\* h[destination] = 0 and h[u] <= w + h[v] along every edge, both ways
Consistent ==
    /\ heuristicValues[destination] = 0
    /\ \A i \in EdgeIndexes :
          LET u == edges[i][1]
              v == edges[i][2]
              w == edges[i][3]
          IN /\ heuristicValues[u] <= w + heuristicValues[v]
             /\ heuristicValues[v] <= w + heuristicValues[u]

\* the completed calls of one method
Entries(op) == {i \in 1 .. Len(hist) : hist[i].op = op}

\* the sum of the lightest edges along a vertex sequence
RECURSIVE RouteWeight(_)
RouteWeight(r) ==
    IF Len(r) < 2 THEN 0
    ELSE Lightest(r[1], r[2]) + RouteWeight(Tail(r))

----------------------------------------------------------------------------
(* C1 *)

\* C1 (as claimed): whenever the destination is reachable, every
\* getShortestPath() returns the distance Dijkstra computes on the same
\* graph, whatever the placement of the vertices in the grid.
C1_AnyPlacement ==
    \A i \in Entries("getShortestPath") :
        Reachable => hist[i].value = Dijkstra(graph, source)[destination]

\* C1 (amended): whenever the destination is reachable, getShortestPath()
\* returns a value that is at least the distance Dijkstra computes, and
\* exactly that distance when the cached heuristic is consistent.
C1_ConsistentPlacement ==
    \A i \in Entries("getShortestPath") :
        Reachable =>
            /\ hist[i].value >= Dijkstra(graph, source)[destination]
            /\ Consistent => hist[i].value = Dijkstra(graph, source)[destination]

\* a consistent heuristic that is not zero everywhere, on a graph where no
\* edge joins source and destination and the best route has a weight
C1_Witness ==
    /\ Entries("getShortestPath") # {}
    /\ Reachable
    /\ Consistent
    /\ \E v \in Vertices : heuristicValues[v] > 0
    /\ ~Joined(source, destination)
    /\ Dijkstra(graph, source)[destination] > 0

----------------------------------------------------------------------------
(* C3 *)

\* C3: every path reconstructPath() returns starts at source, ends at
\* destination and steps only along edges of the graph.
C3_PathIsValid ==
    \A i \in Entries("reconstructPath") :
        hist[i].outcome = "path" =>
            LET r == hist[i].route
            IN /\ Len(r) >= 1
               /\ r[1] = source
               /\ r[Len(r)] = destination
               /\ \A k \in 1 .. (Len(r) - 1) : Joined(r[k], r[k + 1])

C3_Witness ==
    \E i \in Entries("reconstructPath") :
        hist[i].outcome = "path" /\ Len(hist[i].route) = 3

----------------------------------------------------------------------------
(* C4 *)

\* C4: along every path reconstructPath() returns, the lightest edges
\* between consecutive vertices sum to the recorded shortest distance, the
\* value getShortestPath() returns.
C4_PathWeight ==
    /\ \A i \in Entries("reconstructPath") :
          hist[i].outcome = "path" =>
              /\ RouteWeight(hist[i].route) = hist[i].value
              /\ hist[i].value = shortestDistance
    /\ \A i \in Entries("reconstructPath"), j \in Entries("getShortestPath") :
          hist[i].outcome = "path" => hist[j].value = hist[i].value

\* a path of two edges, one of them doubled by a heavier parallel edge
C4_Witness ==
    \E i \in Entries("reconstructPath"), j \in Entries("getShortestPath") :
        /\ hist[i].outcome = "path"
        /\ Len(hist[i].route) = 3
        /\ hist[i].value > 0
        /\ \E a, b \in EdgeIndexes :
              /\ Joins(a, hist[i].route[1], hist[i].route[2])
              /\ Joins(b, hist[i].route[1], hist[i].route[2])
              /\ edges[a][3] < edges[b][3]

----------------------------------------------------------------------------
(* C5 *)

\* C5: when source and destination are in different components, solve()
\* returns false, the recorded distance stays -1 and getShortestPath()
\* returns -1.
C5_Disconnected ==
    ~Reachable =>
        /\ shortestDistance = -1
        /\ \A i \in Entries("solve") : hist[i].outcome = "false"
        /\ \A i \in Entries("getShortestPath") : hist[i].value = -1

\* a search that expanded two vertices before it gave up, then a
\* getShortestPath()
C5_Witness ==
    /\ ~Reachable
    /\ ReachableFrom({source}) # {source}
    /\ Len(hist) = 2
    /\ hist[1].op = "solve"
    /\ hist[2].op = "getShortestPath"

----------------------------------------------------------------------------
(* C6 *)

\* C6: reconstructPath() raises the logic error whenever no earlier solve()
\* on the solver, called directly or by getShortestPath(), returned true.
C6_LogicErrorBeforeSuccess ==
    \A i \in Entries("reconstructPath") :
        (\A j \in 1 .. (i - 1) : ~hist[j].found) => hist[i].outcome = "logic_error"

\* a search that failed, then reconstructPath()
C6_Witness ==
    /\ Len(hist) = 2
    /\ hist[1].op = "solve"
    /\ hist[1].outcome = "false"
    /\ hist[2].op = "reconstructPath"
    /\ hist[2].outcome = "logic_error"

----------------------------------------------------------------------------
(* C7 *)

\* C7: two getShortestPath() calls in a row return the same value.
C7_SameValueTwice ==
    \A i \in 1 .. (Len(hist) - 1) :
        (hist[i].op = "getShortestPath" /\ hist[i + 1].op = "getShortestPath")
            => hist[i + 1].value = hist[i].value

\* the first call searched and found the destination two edges away, the
\* second did not search
C7_Witness ==
    /\ Len(hist) = 2
    /\ hist[1].op = "getShortestPath"
    /\ hist[2].op = "getShortestPath"
    /\ hist[1].ranSolve
    /\ ~hist[2].ranSolve
    /\ hist[2].value > 0

----------------------------------------------------------------------------
(* C8 *)

\* C8 (as claimed): getShortestPath() runs the search exactly when no
\* solve() has run on the solver before, whatever that solve() returned.
C8_SearchesOnlyBeforeAnySolve ==
    \A i \in Entries("getShortestPath") :
        hist[i].ranSolve <=> (\A j \in 1 .. (i - 1) : ~hist[j].ranSolve)

\* C8 (amended): getShortestPath() runs the search exactly when no earlier
\* solve() has returned true and recorded a distance other than -1; after a
\* solve() that returned false it searches again.
C8_SearchesUntilSuccess ==
    \A i \in Entries("getShortestPath") :
        hist[i].ranSolve <=>
            (\A j \in 1 .. (i - 1) : ~(hist[j].found /\ hist[j].value # -1))

\* a solve() that returned false, then a getShortestPath() that searched
C8_Witness ==
    /\ Len(hist) = 2
    /\ hist[1].op = "solve"
    /\ hist[1].outcome = "false"
    /\ hist[2].op = "getShortestPath"
    /\ hist[2].ranSolve

----------------------------------------------------------------------------
(* C2 *)

\* the sum of the weights of edges k, k+1, ..., stopping at inf
RECURSIVE TotalWeight(_)
TotalWeight(k) ==
    IF k > Len(edges) THEN 0
    ELSE LET rest == TotalWeight(k + 1)
         IN IF edges[k][3] >= inf - rest THEN inf ELSE edges[k][3] + rest

\* no sum of edge weights and a heuristic reaches inf
SumsBelowInf ==
    \A v \in Vertices : TotalWeight(1) < inf - heuristicValues[v]

\* C2 (as claimed): solve() returns true exactly when the destination is
\* reachable from the source through the edges of the graph.
C2_TrueIffReachable ==
    \A i \in Entries("solve") : hist[i].found <=> Reachable

\* C2 (amended): when the edge weights and a heuristic together sum to
\* less than INT_MAX, solve() returns true exactly when the destination is
\* reachable from the source.
C2_TrueIffReachableBelowInf ==
    \A i \in Entries("solve") : SumsBelowInf => (hist[i].found <=> Reachable)

\* a destination found two edges away
C2_Witness ==
    \E i \in Entries("solve") :
        /\ SumsBelowInf
        /\ hist[i].found
        /\ source # destination
        /\ ~Joined(source, destination)

----------------------------------------------------------------------------
(* C9 *)

CellsOf(id) == {k \in 0 .. (ScanLength(grid) - 1) : CellValue(grid, k) = id}
FirstCellOf(id) == CHOOSE k \in CellsOf(id) : \A m \in CellsOf(id) : k <= m
LastCellOf(id) == CHOOSE k \in CellsOf(id) : \A m \in CellsOf(id) : k >= m
CellDistance(k, m) ==
    Abs((k \div ScanWidth(grid)) - (m \div ScanWidth(grid)))
    + Abs((k % ScanWidth(grid)) - (m % ScanWidth(grid)))

\* C9 (as claimed): after construction the heuristic of a vertex is the
\* Manhattan distance between a cell that holds it and a cell that holds
\* the destination, whichever those cells are, and 0 for a vertex in no
\* cell.
C9_AnyCell ==
    ctor = "ok" =>
        \A id \in Vertices :
            /\ CellsOf(id) = {} => heuristicValues[id] = 0
            /\ \A k \in CellsOf(id), m \in CellsOf(destination) :
                  heuristicValues[id] = CellDistance(k, m)

\* C9 (amended): after construction the heuristic of a vertex is the
\* Manhattan distance between the last cell in row-major order that holds
\* it and the first cell in row-major order that holds the destination, and
\* 0 for a vertex in no cell.
C9_LastCellToFirstDestinationCell ==
    ctor = "ok" =>
        \A id \in Vertices :
            IF CellsOf(id) = {} THEN heuristicValues[id] = 0
            ELSE heuristicValues[id] =
                     CellDistance(LastCellOf(id), FirstCellOf(destination))

\* a constructed solver whose grid holds the destination twice, another
\* vertex in a different row and column, and lacks a third vertex
C9_Witness ==
    /\ ctor = "ok"
    /\ Cardinality(CellsOf(destination)) = 2
    /\ heuristicValues[destination] > 0
    /\ \E id \in Vertices : id # destination /\ heuristicValues[id] = 2
    /\ \E id \in Vertices : CellsOf(id) = {}

----------------------------------------------------------------------------
(* C10 *)

\* A table of least costs is a set of pairs <<vertex, cost>>, inf standing
\* for no route.
CostIn(d, v) == (CHOOSE p \in d : p[1] = v)[2]

\* one more edge allowed: the least costs d improved along every edge
OneMoreEdge(d) ==
    {<<v, LET via == {IF CostIn(d, u) >= inf - Lightest(u, v) THEN inf
                      ELSE CostIn(d, u) + Lightest(u, v) :
                          u \in {x \in Vertices : Joined(x, v)}}
              all == {CostIn(d, v)} \cup via
          IN CHOOSE x \in all : \A y \in all : x <= y>> : v \in Vertices}

RECURSIVE LeastWithin(_, _)
LeastWithin(d, k) == IF k = 0 THEN d ELSE LeastWithin(OneMoreEdge(d), k - 1)

\* the least cost of a route from a to each vertex
LeastFrom(a) ==
    LeastWithin({<<v, IF v = a THEN 0 ELSE inf>> : v \in Vertices}, V - 1)

\* no heuristic value exceeds the least cost of reaching the destination;
\* the edges being undirected, that is the least cost from the destination
Admissible ==
    \E d \in {LeastFrom(destination)} :
        \A v \in Vertices : heuristicValues[v] <= CostIn(d, v)

\* C10: when the heuristic is admissible, the distance a solve() records as
\* it pops the destination is the least cost from source to destination.
C10_AdmissibleIsOptimal ==
    \A i \in 1 .. Len(hist) :
        (hist[i].found /\ Admissible) => hist[i].value = CostIn(LeastFrom(destination), source)

----------------------------------------------------------------------------
(* C11, C12, C13, C14: what the constructor refuses *)

\* the edge the loop of the constructor refuses for its endpoints, or would
\* refuse for its weight
OutOfRange(i) ==
    \/ edges[i][1] \notin 0 .. (V - 1)
    \/ edges[i][2] \notin 0 .. (V - 1)
Negative(i) == edges[i][3] < 0
Refused(i) == OutOfRange(i) \/ Negative(i)
FirstRefused == CHOOSE i \in EdgeIndexes : Refused(i) /\ \A j \in 1 .. (i - 1) : ~Refused(j)

\* a constructor that threw leaves no object: no member holds anything and
\* no method is ever called
NoSolver ==
    /\ ctor \in {"out_of_range", "invalid_argument"}
    /\ graph = NoVector
    /\ heuristicValues = NoVector
    /\ hist = <<>>
    /\ pc = "idle"

\* C11 as stated: with any edge that has an endpoint outside [0, V) the
\* constructor fails with the out-of-range error and leaves no solver.
C11_OutOfRangeError ==
    (\E i \in EdgeIndexes : OutOfRange(i)) => (ctor = "out_of_range" /\ NoSolver)

\* C11 amended: with any edge that has an endpoint outside [0, V) the
\* constructor fails and leaves no solver; the error is the out-of-range
\* error exactly when V > 0 and the first edge the loop refuses is refused
\* for its endpoints, and the invalid-argument error otherwise (V <= 0, or
\* an earlier edge with endpoints in range has a negative weight).
C11_FirstRefusedEdge ==
    (\E i \in EdgeIndexes : OutOfRange(i)) =>
        /\ NoSolver
        /\ (ctor = "out_of_range") <=> (V > 0 /\ OutOfRange(FirstRefused))

\* the second of two edges is out of range after one that was filed
C11_Witness ==
    /\ V > 0
    /\ Len(edges) = 2
    /\ ~Refused(1)
    /\ OutOfRange(2)
    /\ ctor = "out_of_range"

\* C12 as stated: with any edge of negative weight the constructor fails
\* with the invalid-argument error, and a solver that was built holds only
\* non-negative weights in its adjacency lists.
C12_NegativeWeightError ==
    /\ (\E i \in EdgeIndexes : Negative(i)) => (ctor = "invalid_argument" /\ NoSolver)
    /\ ctor = "ok" =>
           \A u \in DOMAIN graph : \A k \in 1 .. Len(graph[u]) : graph[u][k][2] >= 0

\* C12 amended: with any edge of negative weight the constructor fails and
\* leaves no solver; the error is the invalid-argument error unless V > 0
\* and the first edge the loop refuses has an endpoint outside [0, V),
\* which gives the out-of-range error; a solver that was built holds only
\* non-negative weights in its adjacency lists.
C12_NegativeWeightRefused ==
    /\ (\E i \in EdgeIndexes : Negative(i)) =>
           /\ NoSolver
           /\ (ctor = "invalid_argument") <=> (V <= 0 \/ ~OutOfRange(FirstRefused))
    /\ ctor = "ok" =>
           \A u \in DOMAIN graph : \A k \in 1 .. Len(graph[u]) : graph[u][k][2] >= 0

\* the second of two edges has a negative weight after one that was filed,
\* all endpoints in range
C12_Witness ==
    /\ V > 0
    /\ Len(edges) = 2
    /\ ~Refused(1)
    /\ Negative(2)
    /\ ~OutOfRange(2)
    /\ ctor = "invalid_argument"

\* C13: with V <= 0 the constructor fails with the invalid-argument error
\* whatever the edge list and the grid are, and leaves no solver.
C13_VertexCountFirst ==
    V <= 0 => (ctor = "invalid_argument" /\ NoSolver)

\* V <= 0 with edges that have negative weights and a grid that holds the
\* destination
C13_Witness ==
    /\ V <= 0
    /\ \E i \in EdgeIndexes : Negative(i)
    /\ destination \in Cells(grid)
    /\ ctor = "invalid_argument"

\* C14: with V > 0 and an edge list the loop accepts, a grid that holds the
\* destination in no cell, the grid without rows or without cells included,
\* makes the constructor fail with the invalid-argument error.
C14_DestinationNotInGrid ==
    (V > 0 /\ (\A i \in EdgeIndexes : ~Refused(i)) /\ destination \notin Cells(grid)) =>
        (ctor = "invalid_argument" /\ NoSolver)

\* the grid without rows, under an accepted edge list that is not empty
C14_Witness ==
    /\ V > 0
    /\ edges # <<>>
    /\ \A i \in EdgeIndexes : ~Refused(i)
    /\ grid = <<>>
    /\ ctor = "invalid_argument"

----------------------------------------------------------------------------
(* C15 *)

\* how many cells the scan of the grid finds holding v
TimesInGrid(v) ==
    Cardinality({k \in 0 .. (ScanLength(grid) - 1) : CellValue(grid, k) = v})

\* the documented scenario on a grid that holds each vertex in one cell
Scenario ==
    /\ V = 3
    /\ edges = ScenarioEdges
    /\ source = 0
    /\ destination = 2
    /\ \A v \in 0 .. 2 : TimesInGrid(v) = 1

\* C15: in the scenario V = 3, edges (0,1,5),(1,2,3), source 0, destination
\* 2, on any grid that holds each of 0, 1, 2 in exactly one cell, every
\* getShortestPath() returns 8 and a reconstructPath() that follows one
\* returns the path 0, 1, 2.
C15_Scenario ==
    Scenario =>
        \A i \in 1 .. Len(hist) :
            /\ hist[i].op = "getShortestPath" => hist[i].value = 8
            /\ (i > 1 /\ hist[i].op = "reconstructPath"
                      /\ hist[i - 1].op = "getShortestPath") =>
                   (hist[i].outcome = "path" /\ hist[i].route = <<0, 1, 2>>)

\* getShortestPath() and then reconstructPath() in the scenario, on a grid
\* that lays vertex 1 farther from the destination than vertex 0
C15_Witness ==
    /\ Scenario
    /\ Len(hist) = 2
    /\ hist[1].op = "getShortestPath"
    /\ hist[2].op = "reconstructPath"
    /\ heuristicValues[1] > 0
    /\ heuristicValues[0] < heuristicValues[1]

----------------------------------------------------------------------------
(* C16 *)

\* C16: every solve() that has begun returns, and it returns in one of two
\* ways only: the vertex on top of the frontier is the destination and is
\* not closed, and the call reports success; or the frontier is empty and
\* the call reports failure.
C16_Terminates ==
    /\ [](pc = "loop" => <>(pc = "idle"))
    /\ [][(pc = "loop" /\ pc' = "idle") =>
              \/ /\ pq # {}
                 /\ Top(pq)[2] = destination
                 /\ ~closed[destination]
                 /\ hist'[Len(hist')].found
              \/ /\ pq = {}
                 /\ ~hist'[Len(hist')].found]_vars

\* a search on a graph with parallel edges that relaxed an edge and
\* returned for want of a frontier
C16_Witness ==
    /\ pc = "idle"
    /\ \E i \in 1 .. Len(hist) : hist[i].ranSolve /\ ~hist[i].found
    /\ \E v \in Vertices : parent[v] # -1
    /\ \E a \in Vertices, b \in Vertices :
           a # b /\ Cardinality({i \in EdgeIndexes : Joins(i, a, b)}) > 1

----------------------------------------------------------------------------
(* C17 *)

\* C17: solveTopDown() and solveBottomUp() return the same value on every
\* solver: any two calls made on one object agree.
C17_SolversAgree ==
    \A i \in 1 .. Len(tsp.calls) : \A j \in 1 .. Len(tsp.calls) :
        tsp.calls[i].value = tsp.calls[j].value

----------------------------------------------------------------------------
(* C18 *)

\* the orders in which the vertices of the solver can be visited once each
VertexOrders ==
    {p \in [1 .. hamilton.n -> 0 .. (hamilton.n - 1)] :
        \A a \in 1 .. hamilton.n : \A b \in 1 .. hamilton.n : p[a] = p[b] => a = b}

\* how many entries of the edge list join a and b
Copies(a, b) ==
    Cardinality({k \in 1 .. Len(hamilton.edges) :
                    \/ hamilton.edges[k] = <<a, b>>
                    \/ hamilton.edges[k] = <<b, a>>})

\* the Hamiltonian paths of the graph: the orders whose steps are edges
HamiltonianPaths ==
    {p \in VertexOrders : \A a \in 1 .. (hamilton.n - 1) : Copies(p[a], p[a + 1]) > 0}

\* in how many ways entries of the edge list carry the steps of p from a on
RECURSIVE Ways(_, _)
Ways(p, a) ==
    IF a >= hamilton.n THEN 1 ELSE Copies(p[a], p[a + 1]) * Ways(p, a + 1)

RECURSIVE SumOfWays(_)
SumOfWays(S) ==
    IF S = {} THEN 0
    ELSE LET p == CHOOSE q \in S : TRUE
         IN Ways(p, 1) + SumOfWays(S \ {p})

\* the calls the claim is about: every counting call, and the simpleSolver()
\* calls made while no path was stored
FreshCalls ==
    {i \in 1 .. Len(hamilton.calls) :
        hamilton.calls[i].op = "simpleSolver" => hamilton.calls[i].fresh}

\* C18 as stated: on a fresh solver the number of paths simpleSolver()
\* stores and the counts of pureSimpleSolver() and dpSolver() all equal the
\* number of Hamiltonian paths of the graph, the orders of the vertices
\* whose steps are edges.
C18_CountsVertexOrders ==
    \A i \in FreshCalls : hamilton.calls[i].value = Cardinality(HamiltonianPaths)

\* C18 amended: the three numbers are equal to one another and to the
\* number of Hamiltonian paths counted once for every choice of an
\* edge-list entry for each step, which is the number of Hamiltonian paths
\* when the edge list names no pair of vertices twice.
C18_CountsEdgeChoices ==
    \A i \in FreshCalls :
        /\ hamilton.calls[i].value = SumOfWays(HamiltonianPaths)
        /\ (\A a \in 0 .. (hamilton.n - 1) : \A b \in 0 .. (hamilton.n - 1) :
                a # b => Copies(a, b) <= 1)
               => hamilton.calls[i].value = Cardinality(HamiltonianPaths)

\* dpSolver() and a fresh simpleSolver() on a graph with an edge named
\* twice that has a Hamiltonian path through it
C18_Witness ==
    /\ hamilton.made
    /\ Len(hamilton.calls) = 2
    /\ hamilton.calls[1].op = "dpSolver"
    /\ hamilton.calls[2].op = "simpleSolver"
    /\ hamilton.n = 3
    /\ Cardinality(HamiltonianPaths) > 0
    /\ SumOfWays(HamiltonianPaths) > Cardinality(HamiltonianPaths)

----------------------------------------------------------------------------
(* C19 *)

\* C19: after solve(), reconstructPath(u, v) throws the logic error for
\* every pair whose distance is marked negInf, the pairs with u = v
\* included.
C19_MarkedPairsThrow ==
    floyd.made =>
        \A c \in 1 .. Len(floyd.calls) :
            floyd.dp[floyd.calls[c].u][floyd.calls[c].v] = negInf
                => floyd.calls[c].outcome = "logic_error"

----------------------------------------------------------------------------
(* C20 *)

\* a < b in the order of std::string: the first differing bytes compared as
\* unsigned char (char_traits<char>::lt), a proper prefix being smaller
LexLess(a, b) ==
    \/ \E p \in 1 .. Min(Len(a), Len(b)) :
           /\ \A q \in 1 .. (p - 1) : a[q] = b[q]
           /\ a[p] < b[p]
    \/ /\ Len(a) < Len(b)
       /\ \A q \in 1 .. Len(a) : a[q] = b[q]

\* every suffix of s, the empty one included
Suffixes(s) == {SubSeq(s, p, Len(s)) : p \in 1 .. (Len(s) + 1)}

\* C20: for every string s, getLargestSuffix(s) returns the
\* lexicographically largest of all suffixes of s, as found by comparing
\* every suffix of s directly.
C20_LargestSuffix ==
    suffix.made =>
        \A c \in 1 .. Len(suffix.calls) :
            /\ suffix.calls[c] \in Suffixes(suffix.s)
            /\ \A t \in Suffixes(suffix.s) : ~LexLess(suffix.calls[c], t)

----------------------------------------------------------------------------
(* C21 *)

\* the vertices a walk along the arcs of g reaches from those of S
RECURSIVE ArcClosure(_, _)
ArcClosure(g, S) ==
    LET more == S \cup UNION {{g[u][k] : k \in 1 .. Len(g[u])} : u \in S}
    IN IF more = S THEN S ELSE ArcClosure(g, more)

\* each of u and v is reachable from the other along the arcs of g
MutuallyReachable(g, u, v) ==
    /\ v \in ArcClosure(g, {u})
    /\ u \in ArcClosure(g, {v})

\* the component of sccs that holds u
ComponentsOf(sccs, u) ==
    {c \in 1 .. Len(sccs) : \E p \in 1 .. Len(sccs[c]) : sccs[c][p] = u}

\* C21: getSCC() returns a partition of the vertices in which two vertices
\* are in the same component if and only if each is reachable from the
\* other.
C21_StronglyConnectedComponents ==
    tarjan.made =>
        \A c \in 1 .. Len(tarjan.calls) :
            LET sccs == tarjan.calls[c]
            IN /\ \A u \in 0 .. (tarjan.n - 1) : Cardinality(ComponentsOf(sccs, u)) = 1
               /\ \A k \in 1 .. Len(sccs) :
                      /\ sccs[k] # <<>>
                      /\ \A p, q \in 1 .. Len(sccs[k]) : p # q => sccs[k][p] # sccs[k][q]
               /\ \A u, v \in 0 .. (tarjan.n - 1) :
                      (ComponentsOf(sccs, u) = ComponentsOf(sccs, v))
                          <=> MutuallyReachable(tarjan.m_graph, u, v)

\* C21 witness: getSCC() has returned for a graph in which a vertex was
\* lowered below the discovery time of every neighbour on its own, that is
\* through the lowLink of a neighbour, and which has a component of three
\* vertices next to another component.
C21_Witness ==
    /\ tarjan.made
    /\ Len(tarjan.calls) = 1
    /\ Len(tarjan.sccs) >= 2
    /\ \E k \in 1 .. Len(tarjan.sccs) : Len(tarjan.sccs[k]) = 3
    /\ \E u \in 0 .. (tarjan.n - 1) :
           /\ tarjan.m_graph[u] # <<>>
           /\ \A k \in 1 .. Len(tarjan.m_graph[u]) :
                  tarjan.lowLink[u] < tarjan.ids[tarjan.m_graph[u][k]]

----------------------------------------------------------------------------
(* C22 *)

\* the frontier entries whose vertex is not closed
OpenEntries == {e \in pq : ~closed[e[2]]}

\* e comes first among the open entries: no other has a lower f-score, nor
\* the same f-score and a smaller vertex
FirstOpen(e) ==
    /\ e \in OpenEntries
    /\ \A b \in OpenEntries \ {e} :
           e[1] < b[1] \/ (e[1] = b[1] /\ e[2] < b[2])

\* C22: each step of solve() that expands a vertex, or pops the
\* destination, takes the open frontier entry that is smallest in
\* (f-score, vertex id) order.
C22_TakesLeastOpenEntry ==
    [][/\ (pc = "loop" /\ pc' = "loop" /\ closed' # closed)
           => \E u \in Vertices :
                  /\ ~closed[u] /\ closed'[u]
                  /\ FirstOpen(<<f(dist, u), u>>)
       /\ (pc = "loop" /\ pc' = "idle" /\ hist'[Len(hist')].found)
           => FirstOpen(<<f(dist, destination), destination>>)]_vars

\* C22 witness: vertex 1 has been expanded ahead of vertex 2 on an equal
\* f-score, both entries being in the frontier since the source was
\* expanded.
C22_Witness ==
    /\ pc = "loop"
    /\ closed[1] /\ ~closed[2]
    /\ parent[1] = source /\ parent[2] = source
    /\ <<f(dist, 2), 2>> \in pq
    /\ f(dist, 1) = f(dist, 2)

----------------------------------------------------------------------------
(* C23 *)

\* C23: within one solve(), a closed vertex stays closed and keeps its dist
\* and its parent, and a step that closes no vertex (it pops the entry of a
\* closed vertex) relaxes no edge: it changes neither dist nor parent and
\* adds no frontier entry.
C23_ClosedIsFinal ==
    [][(pc = "loop" /\ pc' = "loop")
           => /\ \A v \in Vertices :
                     closed[v] => /\ closed'[v]
                                  /\ dist'[v] = dist[v]
                                  /\ parent'[v] = parent[v]
              /\ closed' = closed
                     => /\ dist' = dist
                        /\ parent' = parent
                        /\ pq' \subseteq pq
                        /\ pq' # pq]_vars

\* C23 witness: a search in which a closed vertex v has a neighbour u,
\* closed after it, through which v would be nearer than its dist says:
\* the expansion of u has left dist[v] and parent[v] alone.
C23_Witness ==
    /\ pc = "loop"
    /\ \E u \in Vertices : \E k \in 1 .. Len(graph[u]) :
           LET v == graph[u][k][1]
           IN /\ closed[u] /\ closed[v]
              /\ IntAdd(dist[u], graph[u][k][2]) < dist[v]

----------------------------------------------------------------------------
(* C24 *)

\* the weights of the edges joining a and b
WeightsBetween(a, b) == {edges[i][3] : i \in {j \in EdgeIndexes : Joins(j, a, b)}}

\* what relaxation keeps true of dist, parent and the frontier
RelaxationInvariant ==
    \A v \in Vertices :
        /\ (v # source /\ dist[v] # inf)
               => /\ parent[v] \in Vertices
                  /\ closed[parent[v]]
                  /\ \E w \in WeightsBetween(parent[v], v) :
                         dist[v] = IntAdd(dist[parent[v]], w)
        /\ dist[v] = inf
               => /\ parent[v] = -1
                  /\ \A e \in pq : e[2] # v

\* C24: at every point of a solve(), dist[v] only ever decreases; every
\* vertex other than the source with a finite dist has as parent a closed
\* neighbour u with dist[v] = dist[u] + the weight of an edge (u, v); every
\* vertex whose dist is still infinite has parent -1 and no frontier entry.
C24_RelaxationInvariant ==
    /\ [](pc = "loop" => RelaxationInvariant)
    /\ [][(pc = "loop" /\ pc' = "loop")
              => \A v \in Vertices : dist'[v] <= dist[v]]_vars

\* C24 witness: a search in which the dist of a neighbour of the source,
\* set when the source was expanded, has been lowered through another
\* vertex.
C24_Witness ==
    /\ pc = "loop"
    /\ \E v \in Vertices :
           /\ v # source
           /\ Joined(source, v)
           /\ parent[v] \in Vertices \ {source}
           /\ dist[v] < Lightest(source, v)

----------------------------------------------------------------------------
(* C25 *)

\* the calls that ran a search: solve(), and getShortestPath() when it
\* called solve()
Searches == {i \in 1 .. Len(hist) : hist[i].ranSolve}

\* C25: every later search on the same solver ends as the first did: the
\* same boolean, the same recorded distance and the same parent table; and
\* reconstructPath() returns the same path after each of them.
C25_SolveAgainIsTheSame ==
    /\ \A i, j \in Searches :
           /\ hist[i].found = hist[j].found
           /\ hist[i].value = hist[j].value
           /\ hist[i].table = hist[j].table
    /\ \A i, j \in Entries("reconstructPath") :
           (hist[i].outcome = "path" /\ hist[j].outcome = "path")
               => hist[i].route = hist[j].route

\* C25 witness: solve(), reconstructPath(), solve() and reconstructPath()
\* again, on a solver whose search expands a vertex besides the source and
\* finds the destination.
C25_Witness ==
    /\ Len(hist) = 4
    /\ hist[1].op = "solve" /\ hist[1].found
    /\ hist[2].op = "reconstructPath" /\ Len(hist[2].route) = 3
    /\ hist[3].op = "solve"
    /\ hist[4].op = "reconstructPath" /\ hist[4].outcome = "path"

----------------------------------------------------------------------------
(* C26 *)

\* the walk from the destination back to the source along the table t, in
\* source-to-destination order; more than V steps never happen on a table
\* a successful search left
RECURSIVE AlongTable(_, _, _)
AlongTable(t, u, steps) ==
    IF u = source \/ u \notin DOMAIN t \/ steps > V THEN <<u>>
    ELSE Append(AlongTable(t, t[u], steps + 1), u)

----------------------------------------------------------------------------
(* C27 *)

\* the searches that returned true and recorded the sentinel -1
FoundSentinel == {i \in Searches : hist[i].found /\ hist[i].value = -1}

\* C27: with int addition modulo 2^32 solve() can return true while the
\* recorded distance is -1; after such a search reconstructPath() still
\* raises the logic error and getShortestPath() runs the search again.
C27_SentinelCollides ==
    \A i \in FoundSentinel :
        \A j \in (i + 1) .. Len(hist) :
            /\ hist[j].op = "reconstructPath" => hist[j].outcome = "logic_error"
            /\ hist[j].op = "getShortestPath" => hist[j].ranSolve

\* C27 witness: weights that are not negative, a solve() that returned
\* true with -1 recorded, then a reconstructPath() that raised the logic
\* error and a getShortestPath() that searched again.
C27_Witness ==
    /\ \A i \in EdgeIndexes : edges[i][3] >= 0
    /\ Len(hist) = 3
    /\ hist[1].op = "solve" /\ hist[1].found /\ hist[1].value = -1
    /\ hist[2].op = "reconstructPath" /\ hist[2].outcome = "logic_error"
    /\ hist[3].op = "getShortestPath" /\ hist[3].ranSolve /\ hist[3].found

----------------------------------------------------------------------------
(* C28 *)

\* C28: whenever the cached heuristic is consistent, every closed vertex
\* holds in dist its shortest distance from the source (dist of a closed
\* vertex is the value it had when it was closed), and the distance a
\* successful solve() records is the one Dijkstra computes.
C28_ConsistentClosesAtShortest ==
    Consistent =>
        /\ pc = "loop" =>
               \A v \in Vertices :
                   closed[v] => dist[v] = Dijkstra(graph, source)[v]
        /\ \A i \in Searches :
               hist[i].found => hist[i].value = Dijkstra(graph, source)[destination]

\* C28 witness: a consistent heuristic that is not 0 everywhere, a vertex
\* closed at a distance it got through a vertex other than the source and
\* joined to the destination by an edge.
C28_Witness ==
    /\ pc = "loop"
    /\ Consistent
    /\ \E x \in Vertices : heuristicValues[x] > 0
    /\ \E v \in Vertices :
           /\ closed[v]
           /\ parent[v] \in Vertices \ {source}
           /\ Joined(v, destination)

----------------------------------------------------------------------------
(* C29 *)

\* C29: after a successful construction, source, destination and every
\* grid cell other than the sentinel -1 lie in [0, V).
C29_MembersInRange ==
    ctor = "ok" =>
        /\ source \in Vertices
        /\ destination \in Vertices
        /\ \A c \in Cells(grid) : c # -1 => c \in Vertices

----------------------------------------------------------------------------
(* C30 *)

\* following parent from u, seen being the vertices left behind: the walk
\* reaches the source without reading parent at -1, without meeting a
\* vertex twice, and in at most V - 1 steps
RECURSIVE WalksHome(_, _)
WalksHome(u, seen) ==
    IF u = source THEN Cardinality(seen) <= V - 1
    ELSE /\ u \in DOMAIN parent
         /\ u \notin seen
         /\ WalksHome(parent[u], seen \cup {u})

\* the last search of hist returned true, and no other is running
LastSearchFound ==
    /\ pc = "idle"
    /\ Searches # {}
    /\ LET last == CHOOSE i \in Searches : \A j \in Searches : j <= i
       IN hist[last].found

\* C30: after a solve() that returned true on a solver whose source and
\* destination are vertices, parent[source] is -1 and following parent from
\* the destination reaches the source in at most V - 1 steps, without
\* visiting a vertex twice and without reading parent at index -1.
C30_WalkTerminates ==
    (LastSearchFound /\ source \in Vertices /\ destination \in Vertices)
        => /\ parent[source] = -1
           /\ WalksHome(destination, {})

\* C30 witness: a search has returned true and the walk from the
\* destination to the source takes V - 1 = 3 steps.
C30_Witness ==
    /\ LastSearchFound
    /\ V = 4
    /\ parent[destination] \in Vertices \ {source}
    /\ parent[parent[destination]] \in Vertices \ {source}
    /\ parent[parent[parent[destination]]] = source

====
